---- MODULE Spec2Model ----
(***************************************************************************)
(* A model of SQLParser (src/lib/sqlParser.ts): the class that turns an    *)
(* SQL script into a DatabaseSchema (tables and relationships).            *)
(*                                                                         *)
(* The script is a character string and is parsed as the code parses it:   *)
(* every regular expression and string method the parser calls is an       *)
(* operator over strings below.  TLC's Len, \o and SubSeq act on strings   *)
(* as on sequences of one-character strings.  A value that the code keeps  *)
(* in a local constant is here the parameter of a helper operator.         *)
(***************************************************************************)
EXTENDS Integers, Sequences, FiniteSets, TLC

(***************************************************************************)
(* JavaScript string and array methods                                     *)
(***************************************************************************)
UpperChars == "ABCDEFGHIJKLMNOPQRSTUVWXYZ"
LowerChars == "abcdefghijklmnopqrstuvwxyz"
DigitChars == "0123456789"

charAt(s, i) == SubSeq(s, i, i)

CharsOf(s) == { charAt(s, i) : i \in 1..Len(s) }

\* \s of a regular expression, and what trim() removes
SpaceChars == {" ", "\t", "\n", "\r"}

\* \w of a regular expression
WordChars == CharsOf(UpperChars) \cup CharsOf(LowerChars) \cup CharsOf(DigitChars) \cup {"_"}

LowerOf == [ c \in CharsOf(UpperChars) |->
               charAt(LowerChars, CHOOSE i \in 1..26 : charAt(UpperChars, i) = c) ]

UpperOf == [ c \in CharsOf(LowerChars) |->
               charAt(UpperChars, CHOOSE i \in 1..26 : charAt(LowerChars, i) = c) ]

\* the least (greatest) element of a set of positions; 0 when it is empty
least(S) == IF S = {} THEN 0 ELSE CHOOSE i \in S : \A j \in S : i <= j

greatest(S) == IF S = {} THEN 0 ELSE CHOOSE i \in S : \A j \in S : i >= j

\* the characters of s from position a to position b, each replaced by f of it
RECURSIVE mapChars(_, _, _, _)
mapChars(f(_), s, a, b) ==
  IF a > b THEN ""
  ELSE IF a = b THEN f(charAt(s, a))
  ELSE mapChars(f, s, a, (a + b) \div 2) \o mapChars(f, s, (a + b) \div 2 + 1, b)

lowerChar(c) == IF c \in DOMAIN LowerOf THEN LowerOf[c] ELSE c

upperChar(c) == IF c \in DOMAIN UpperOf THEN UpperOf[c] ELSE c

toLowerCase(s) == mapChars(lowerChar, s, 1, Len(s))

toUpperCase(s) == mapChars(upperChar, s, 1, Len(s))

\* the positions of s, from position a on, that hold a character of chars
\* (that hold a character outside chars)
inside(s, a, chars) == { i \in a..Len(s) : charAt(s, i) \in chars }

outside(s, a, chars) == { i \in a..Len(s) : charAt(s, i) \notin chars }

\* the positions from position a on where p occurs in s
occurrences(s, p, a) == { i \in a..(Len(s) - Len(p) + 1) : SubSeq(s, i, i + Len(p) - 1) = p }

between(s, ink) == IF ink = {} THEN "" ELSE SubSeq(s, least(ink), greatest(ink))

trim(s) == between(s, outside(s, 1, SpaceChars))

startsWith(s, p) == Len(s) >= Len(p) /\ SubSeq(s, 1, Len(p)) = p

endsWith(s, p) == Len(s) >= Len(p) /\ SubSeq(s, Len(s) - Len(p) + 1, Len(s)) = p

\* s.indexOf(p, from), 1-based; 0 when p does not occur at or after from
indexOf(s, p, from) == least(occurrences(s, p, from))

\* s.lastIndexOf(p), 1-based; 0 when p does not occur
lastIndexOf(s, p) == greatest(occurrences(s, p, 1))

includes(s, p) == occurrences(s, p, 1) # {}

\* the number of elements of the set of positions ps that are below i
rank(ps, i) == Cardinality({ j \in ps : j < i })

\* a set of positions as the ascending sequence of its elements
ascending(ps) == [ k \in 1..Cardinality(ps) |-> CHOOSE i \in ps : rank(ps, i) = k - 1 ]

\* s cut at the positions ps (ascending), which are left out
cutAt(s, ps) ==
  [ k \in 1..(Len(ps) + 1) |->
      SubSeq(s, IF k = 1 THEN 1 ELSE ps[k - 1] + 1,
                IF k > Len(ps) THEN Len(s) ELSE ps[k] - 1) ]

\* s.split(sep) for a one-character separator: "" splits to <<"">>
split(s, sep) == cutAt(s, ascending(occurrences(s, sep, 1)))

\* the positions where a run of non-space characters of s starts (ends)
runStarts(s) ==
  { i \in 1..Len(s) : charAt(s, i) \notin SpaceChars
                        /\ (i = 1 \/ charAt(s, i - 1) \in SpaceChars) }

runEnds(s) ==
  { i \in 1..Len(s) : charAt(s, i) \notin SpaceChars
                        /\ (i = Len(s) \/ charAt(s, i + 1) \in SpaceChars) }

runsBetween(s, starts, ends) == [ k \in 1..Len(starts) |-> SubSeq(s, starts[k], ends[k]) ]

\* s.split(/\s+/) of a trimmed string: its runs of non-space characters; "" splits to <<"">>
splitSpaces(s) ==
  IF s = "" THEN <<"">> ELSE runsBetween(s, ascending(runStarts(s)), ascending(runEnds(s)))

\* s.replace(/["\x60]/g, ''): the double quote and the backtick are removed.
\* The scripts of this model hold no backtick (a TLA+ string cannot hold one).
dropQuote(c) == IF c = "\"" THEN "" ELSE c

stripQuotes(s) == mapChars(dropQuote, s, 1, Len(s))

\* array.includes(x)
arrayIncludes(arr, x) == \E i \in 1..Len(arr) : arr[i] = x

\* array.map(f) and array.filter(p) over a sequence
mapSeq(f(_), arr) == [ i \in 1..Len(arr) |-> f(arr[i]) ]

\* the indices of arr whose element satisfies p, as a set
passing(p(_), arr) == { i \in 1..Len(arr) : p(arr[i]) }

pick(arr, indices) == [ k \in 1..Len(indices) |-> arr[indices[k]] ]

filterSeq(p(_), arr) == pick(arr, ascending(passing(p, arr)))

\* array.join(sep)
RECURSIVE join(_, _)
join(arr, sep) ==
  IF arr = <<>> THEN ""
  ELSE IF Len(arr) = 1 THEN arr[1]
  ELSE arr[1] \o sep \o join(Tail(arr), sep)

(***************************************************************************)
(* Regular expressions.  A position is 1-based; 0 is "no match".  Each     *)
(* helper takes the position where its piece must start and gives the      *)
(* position after it.                                                      *)
(***************************************************************************)
\* a position found, or the end of s when none was
orEnd(s, j) == IF j = 0 THEN Len(s) + 1 ELSE j

\* the first position at or after i whose character is not in chars
skipWhile(s, i, chars) == orEnd(s, least(outside(s, i, chars)))

\* j when the piece from i to j is not empty
advanced(i, j) == IF j > i THEN j ELSE 0

\* a literal of the pattern under the i flag (lit is given in upper case)
reLit(s, i, lit) ==
  IF i = 0 \/ i + Len(lit) - 1 > Len(s) THEN 0
  ELSE IF toUpperCase(SubSeq(s, i, i + Len(lit) - 1)) = lit THEN i + Len(lit) ELSE 0

\* \s+
reSpaces1(s, i) == IF i = 0 THEN 0 ELSE advanced(i, skipWhile(s, i, SpaceChars))

\* \s*
reSpaces0(s, i) == IF i = 0 THEN 0 ELSE skipWhile(s, i, SpaceChars)

\* \w+
reWord1(s, i) == IF i = 0 THEN 0 ELSE advanced(i, skipWhile(s, i, WordChars))

\* [^)]+ followed by \): the position of that ")"
reNotParen1(s, i) == IF i = 0 THEN 0 ELSE advanced(i, indexOf(s, ")", i))

\* what String.match gives: null, or the groups
NoMatch == [ok |-> FALSE, g |-> <<>>]

matched(groups) == [ok |-> TRUE, g |-> groups]

\* the text from position a to before position b
textBetween(s, a, b) == SubSeq(s, a, b - 1)

matchOr(matchAt(_, _), s, q) == IF q = 0 THEN NoMatch ELSE matchAt(s, q)

\* the leftmost match at or after position p
reSearch(matchAt(_, _), s, p) ==
  matchOr(matchAt, s, least({ q \in p..Len(s) : matchAt(s, q).ok }))

\* the group from position e to before position f, when the match got to f
groupTo(s, e, f) == IF f # 0 THEN matched(<<textBetween(s, e, f)>>) ELSE NoMatch

\* (\w+) at position i
wordAt(s, i) == groupTo(s, i, reWord1(s, i))

\* an optional piece: the match with it when there is one, else the match without
orElse(with, without) == IF with.ok THEN with ELSE without

\* (?:IF\s+NOT\s+EXISTS\s+)?(\w+) at position d
tableNameFrom(s, d) ==
  orElse(wordAt(s, reSpaces1(s, reLit(s, reSpaces1(s, reLit(s, reSpaces1(s,
                      reLit(s, d, "IF")), "NOT")), "EXISTS"))),
         wordAt(s, d))

\* /CREATE\s+TABLE\s+(?:IF\s+NOT\s+EXISTS\s+)?(\w+)/i at position p
tableNameAt(s, p) ==
  tableNameFrom(s, reSpaces1(s, reLit(s, reSpaces1(s, reLit(s, p, "CREATE")), "TABLE")))

tableNameMatch(statement) == reSearch(tableNameAt, statement, 1)

contentBetween(statement, i, j) ==
  IF i # 0 /\ j > i THEN matched(<<textBetween(statement, i + 1, j)>>) ELSE NoMatch

\* /\(([\s\S]*)\)/: from the first "(" to the last ")" after it
contentMatch(statement) ==
  contentBetween(statement, indexOf(statement, "(", 1), lastIndexOf(statement, ")"))

\* ([^)]+)\) at position e
parenGroupAt(s, e) == groupTo(s, e, reNotParen1(s, e))

\* /PRIMARY\s+KEY\s*\(([^)]+)\)/i at position p
pkAt(s, p) ==
  parenGroupAt(s, reLit(s, reSpaces0(s, reLit(s, reSpaces1(s, reLit(s, p, "PRIMARY")), "KEY")), "("))

pkMatch(definition) == reSearch(pkAt, definition, 1)

\* /FOREIGN\s+KEY\s*\(([^)]+)\)\s+REFERENCES\s+(\w+)\s*\(([^)]+)\)/i at position p,
\* piece by piece: e f, j k and m n are where the three groups start and end
fkEnd(s, g1, g2, m, n) == IF n # 0 THEN matched(<<g1, g2, textBetween(s, m, n)>>) ELSE NoMatch

fkTarget(s, g1, g2, m) == fkEnd(s, g1, g2, m, reNotParen1(s, m))

fkTable(s, g1, j, k) == fkTarget(s, g1, textBetween(s, j, k), reLit(s, reSpaces0(s, k), "("))

fkReferences(s, g1, j) == fkTable(s, g1, j, reWord1(s, j))

fkSource(s, e, f) ==
  fkReferences(s, textBetween(s, e, f),
               reSpaces1(s, reLit(s, reSpaces1(s, reLit(s, f, ")")), "REFERENCES")))

fkKey(s, e) == fkSource(s, e, reNotParen1(s, e))

fkAt(s, p) ==
  fkKey(s, reLit(s, reSpaces0(s, reLit(s, reSpaces1(s, reLit(s, p, "FOREIGN")), "KEY")), "("))

fkMatch(definition) == reSearch(fkAt, definition, 1)

\* /UNIQUE\s*\(([^)]+)\)/i at position p
uniqueAt(s, p) == parenGroupAt(s, reLit(s, reSpaces0(s, reLit(s, p, "UNIQUE")), "("))

uniqueMatch(definition) == reSearch(uniqueAt, definition, 1)

\* group.split(',').map(col => col.trim().replace(/["\x60]/g, '').toLowerCase())
cleanName(col) == toLowerCase(stripQuotes(trim(col)))

columnList(group) == mapSeq(cleanName, split(group, ","))

(***************************************************************************)
(* splitStatements                                                         *)
(***************************************************************************)
RECURSIVE removeLineComments(_)

\* the comment that starts at position i runs to before the line terminator at n
lineCommentTo(sql, i, n) ==
  IF n = 0 THEN SubSeq(sql, 1, i - 1)
  ELSE SubSeq(sql, 1, i - 1) \o removeLineComments(SubSeq(sql, n, Len(sql)))

lineCommentFrom(sql, i) ==
  IF i = 0 THEN sql ELSE lineCommentTo(sql, i, least(inside(sql, i, {"\n", "\r"})))

\* sql.replace(/--.*$/gm, ''): "." stops at a line terminator
removeLineComments(sql) == lineCommentFrom(sql, indexOf(sql, "--", 1))

RECURSIVE removeBlockComments(_)

\* the comment that starts at position i is closed at position close
blockCommentTo(sql, i, close) ==
  IF close = 0 THEN sql
  ELSE SubSeq(sql, 1, i - 1) \o removeBlockComments(SubSeq(sql, close + 2, Len(sql)))

blockCommentFrom(sql, i) ==
  IF i = 0 THEN sql ELSE blockCommentTo(sql, i, indexOf(sql, "*/", i + 2))

\* sql.replace(/\/\*[\s\S]*?\*\//g, ''): to the first "*/" after the "/*"
removeBlockComments(sql) == blockCommentFrom(sql, indexOf(sql, "/*", 1))

isNotBlank(stmt) == Len(trim(stmt)) > 0

splitStatements(sql) ==
  filterSeq(isNotBlank, split(removeBlockComments(removeLineComments(sql)), ";"))

(***************************************************************************)
(* parseCreateTable and what it calls                                      *)
(***************************************************************************)
\* an optional field (foreignKey?, junctionTable?) is <<>> or <<value>>
Absent == <<>>

\* parenDepth when the loop of lines 138-152 reaches position i
parenDepthAt(content, i) ==
  Cardinality({ j \in 1..(i - 1) : charAt(content, j) = "(" })
    - Cardinality({ j \in 1..(i - 1) : charAt(content, j) = ")" })

\* the commas at which the loop pushes a definition (line 145)
splittingCommas(content) ==
  { i \in occurrences(content, ",", 1) : parenDepthAt(content, i) = 0 }

\* line 154: what is left after the last comma is pushed unless it is blank
withoutBlankLast(definitions) ==
  IF definitions[Len(definitions)] = ""
  THEN SubSeq(definitions, 1, Len(definitions) - 1) ELSE definitions

splitColumnDefinitions(content) ==
  withoutBlankLast(mapSeq(trim, cutAt(content, ascending(splittingCommas(content)))))

\* lines 163-174; <<>> is null
columnOf(parts, upperDef) ==
  IF Len(parts) < 2 THEN <<>>
  ELSE << [ name       |-> toLowerCase(stripQuotes(parts[1])),
            type       |-> parts[2],
            nullable   |-> ~ includes(upperDef, "NOT NULL"),
            primaryKey |-> includes(upperDef, "PRIMARY KEY"),
            foreignKey |-> Absent ] >>

parseColumnDefinition(definition) ==
  columnOf(splitSpaces(trim(definition)), toUpperCase(definition))

\* lines 186-193
forEachSourceColumn(sourceColumns, targetTable, targetColumns) ==
  [ n \in 1..Len(sourceColumns) |->
      [ column    |-> sourceColumns[n],
        refTable  |-> targetTable,
        \* targetColumns[index] || targetColumns[0]: "" is falsy
        refColumn |-> IF n <= Len(targetColumns) /\ targetColumns[n] # ""
                      THEN targetColumns[n] ELSE targetColumns[1] ] ]

foreignKeysOf(fkm) ==
  IF ~ fkm.ok THEN <<>>
  ELSE forEachSourceColumn(columnList(fkm.g[1]), toLowerCase(trim(fkm.g[2])),
                           columnList(fkm.g[3]))

\* the entries the constraint appends to the table's foreign-key list
parseForeignKeyConstraint(definition) == foreignKeysOf(fkMatch(definition))

columnsOf(m) == IF m.ok THEN columnList(m.g[1]) ELSE <<>>

\* the names the constraint appends to the table's unique list
parseUniqueConstraint(definition) == columnsOf(uniqueMatch(definition))

hasUniqueConstraint(definition) == includes(toUpperCase(definition), "UNIQUE")

\* lines 86-103: what a column definition adds to the four local arrays
withColumn(acc, column, trimmed) ==
  IF column = <<>> THEN acc
  ELSE [ columns |-> Append(acc.columns, column[1]),
         tablePrimaryKeys |->
           acc.tablePrimaryKeys \o (IF column[1].primaryKey THEN <<column[1].name>> ELSE <<>>),
         tableForeignKeys |->
           acc.tableForeignKeys \o
             (IF column[1].foreignKey # Absent
              THEN << [ column    |-> column[1].name,
                        refTable  |-> column[1].foreignKey[1].table,
                        refColumn |-> column[1].foreignKey[1].column ] >>
              ELSE <<>>),
         tableUniqueConstraints |->
           acc.tableUniqueConstraints \o
             (IF hasUniqueConstraint(trimmed) THEN <<column[1].name>> ELSE <<>>) ]

\* lines 74-104, upper being trimmed.toUpperCase()
processTrimmed(acc, trimmed, upper) ==
  IF startsWith(upper, "PRIMARY KEY")
  THEN [acc EXCEPT !.tablePrimaryKeys = @ \o columnsOf(pkMatch(trimmed))]
  ELSE IF startsWith(upper, "FOREIGN KEY")
  THEN [acc EXCEPT !.tableForeignKeys = @ \o parseForeignKeyConstraint(trimmed)]
  ELSE IF startsWith(upper, "UNIQUE")
  THEN [acc EXCEPT !.tableUniqueConstraints = @ \o parseUniqueConstraint(trimmed)]
  ELSE IF Len(trimmed) > 0 /\ ~ startsWith(upper, "CONSTRAINT")
  THEN withColumn(acc, parseColumnDefinition(trimmed), trimmed)
  ELSE acc

\* one pass of the loop over columnDefinitions (lines 71-105); acc holds the
\* four local arrays
processDefinition(acc, definition) ==
  processTrimmed(acc, trim(definition), toUpperCase(trim(definition)))

RECURSIVE processDefinitions(_, _)
processDefinitions(acc, definitions) ==
  IF definitions = <<>> THEN acc
  ELSE processDefinitions(processDefinition(acc, definitions[1]), Tail(definitions))

\* lines 113-117
markPrimaryKeys(columns, tablePrimaryKeys) ==
  [ i \in 1..Len(columns) |->
      IF arrayIncludes(tablePrimaryKeys, toLowerCase(columns[i].name))
      THEN [columns[i] EXCEPT !.primaryKey = TRUE] ELSE columns[i] ]

\* lines 122-127: found is the index of the column, 0 when there is none
setForeignKey(columns, fk, found) ==
  IF found = 0 THEN columns
  ELSE [columns EXCEPT ![found].foreignKey = << [table |-> fk.refTable, column |-> fk.refColumn] >>]

\* line 121: the first column of the foreign key's name
markForeignKey(columns, fk) ==
  setForeignKey(columns, fk,
    least({ i \in 1..Len(columns) : toLowerCase(columns[i].name) = toLowerCase(fk.column) }))

\* lines 120-128
RECURSIVE markForeignKeys(_, _)
markForeignKeys(columns, tableForeignKeys) ==
  IF tableForeignKeys = <<>> THEN columns
  ELSE markForeignKeys(markForeignKey(columns, tableForeignKeys[1]), Tail(tableForeignKeys))

\* lines 108-130: what is stored for the table
tableFrom(tableName, acc) ==
  [ ok |-> TRUE,
    tableName |-> tableName,
    primaryKeys |-> acc.tablePrimaryKeys,
    foreignKeys |-> acc.tableForeignKeys,
    uniqueConstraints |-> acc.tableUniqueConstraints,
    table |-> [ name |-> tableName,
                columns |-> markForeignKeys(markPrimaryKeys(acc.columns, acc.tablePrimaryKeys),
                                            acc.tableForeignKeys) ] ]

\* lines 57-64, given the two matches
createTable(nameMatch, content) ==
  IF ~ nameMatch.ok \/ ~ content.ok THEN [ok |-> FALSE]
  ELSE tableFrom(toLowerCase(nameMatch.g[1]),
                 processDefinitions(
                   [ columns |-> <<>>, tablePrimaryKeys |-> <<>>,
                     tableForeignKeys |-> <<>>, tableUniqueConstraints |-> <<>> ],
                   splitColumnDefinitions(content.g[1])))

\* parseCreateTable(statement): ok is FALSE where the code returns early
\* (lines 57 and 61); otherwise what lines 108-110 and 130 store
parseCreateTable(statement) ==
  createTable(tableNameMatch(statement), contentMatch(statement))

\* processStatement(statement): only CREATE TABLE statements are parsed
processStatement(statement) ==
  IF startsWith(toUpperCase(statement), "CREATE TABLE") THEN parseCreateTable(statement)
  ELSE [ok |-> FALSE]

(***************************************************************************)
(* A Map<string, V> is the sequence of its entries in insertion order,     *)
(* which is the order Map iterates in.                                     *)
(***************************************************************************)
mapHas(m, k) == \E n \in 1..Len(m) : m[n].key = k

mapGet(m, k) == m[CHOOSE n \in 1..Len(m) : m[n].key = k].val

\* m.get(k) || []
mapGetOrEmpty(m, k) == IF mapHas(m, k) THEN mapGet(m, k) ELSE <<>>

\* m.set(k, v) leaving the value of an existing key as it is
mapSetFirst(m, k, v) ==
  IF \E n \in 1..Len(m) : m[n].key = k THEN m ELSE Append(m, [key |-> k, val |-> v])

\* m.set(k, v) moving an existing key to the end
mapSetLast(m, k, v) ==
  Append(pick(m, ascending({ n \in 1..Len(m) : m[n].key # k })), [key |-> k, val |-> v])

\* m.set(k, v): an existing key keeps its place
mapSet(m, k, v) ==
  IF mapHas(m, k)
  THEN [ n \in 1..Len(m) |-> IF m[n].key = k THEN [key |-> k, val |-> v] ELSE m[n] ]
  ELSE Append(m, [key |-> k, val |-> v])

mapKeys(m) == [ n \in 1..Len(m) |-> m[n].key ]

(***************************************************************************)
(* analyzeRelationships and what it calls.  "this" is the parser's fields  *)
(* as values: tables, primaryKeys, foreignKeys, uniqueConstraints (maps)   *)
(* and relationships (the array's elements).                               *)
(***************************************************************************)
timestampPatterns ==
  <<"created_at", "updated_at", "deleted_at", "timestamp", "date_created", "date_modified">>

isTimestampColumn(columnName) ==
  \E n \in 1..Len(timestampPatterns) : includes(toLowerCase(columnName), timestampPatterns[n])

\* isJunction without its test: no table is a junction
neverJunction(columns, primaryKeys, fkColumns) == FALSE

\* lines 248-262, fkColumns being the lower-cased foreign key columns
isJunction(columns, primaryKeys, fkColumns) ==
  /\ Len(primaryKeys) = 2
  /\ \A n \in 1..Len(primaryKeys) : arrayIncludes(fkColumns, toLowerCase(primaryKeys[n]))
  /\ Cardinality({ n \in 1..Len(columns) :
                     /\ ~ arrayIncludes(fkColumns, toLowerCase(columns[n].name))
                     /\ ~ isTimestampColumn(columns[n].name) }) <= 2

\* whether the entry (tableName, foreignKeys) of this.foreignKeys is added to
\* junctionTables (lines 240-265)
isJunctionTable(this, tableName, foreignKeys) ==
  /\ mapHas(this.tables, tableName)
  /\ Len(foreignKeys) = 2
  /\ isJunction(mapGet(this.tables, tableName).columns,
                mapGetOrEmpty(this.primaryKeys, tableName),
                [ n \in 1..Len(foreignKeys) |-> toLowerCase(foreignKeys[n].column) ])

\* the Set's elements in insertion order
identifyJunctionTables(this) ==
  mapKeys(pick(this.foreignKeys,
               ascending({ n \in 1..Len(this.foreignKeys) :
                             isJunctionTable(this, this.foreignKeys[n].key,
                                             this.foreignKeys[n].val) })))

\* the relationship of a junction table without the table's name
manyToManyUnnamed(junctionTableName, fk1, fk2) ==
  [ from |-> [table |-> fk1.refTable, column |-> fk1.refColumn],
    to   |-> [table |-> fk2.refTable, column |-> fk2.refColumn],
    type |-> "MANY_TO_MANY",
    junctionTable |-> Absent ]

\* lines 280-288
manyToMany(junctionTableName, fk1, fk2) ==
  [ from |-> [table |-> fk1.refTable, column |-> fk1.refColumn],
    to   |-> [table |-> fk2.refTable, column |-> fk2.refColumn],
    type |-> "MANY_TO_MANY",
    junctionTable |-> <<junctionTableName>> ]

\* what createManyToManyRelationship pushes: nothing or one relationship
createManyToManyRelationship(this, junctionTableName) ==
  IF ~ mapHas(this.foreignKeys, junctionTableName)
       \/ Len(mapGet(this.foreignKeys, junctionTableName)) # 2
  THEN <<>>
  ELSE << manyToMany(junctionTableName, mapGet(this.foreignKeys, junctionTableName)[1],
                     mapGet(this.foreignKeys, junctionTableName)[2]) >>

\* a resolver that reads a non-unique column to a primary key from the other side
oneToManyType(isFromColumnUnique, isToColumnPrimary) ==
  IF isFromColumnUnique /\ isToColumnPrimary THEN "ONE_TO_ONE"
  ELSE IF isToColumnPrimary THEN "ONE_TO_MANY"
  ELSE "MANY_TO_ONE"

\* lines 307-314
relationshipType(isFromColumnUnique, isToColumnPrimary) ==
  IF isFromColumnUnique /\ isToColumnPrimary THEN "ONE_TO_ONE"
  ELSE IF isToColumnPrimary THEN "MANY_TO_ONE"
  ELSE "MANY_TO_ONE"

determineRelationshipType(this, fromTable, fromColumn, toTable, toColumn) ==
  relationshipType(
    arrayIncludes(mapGetOrEmpty(this.uniqueConstraints, fromTable), toLowerCase(fromColumn)),
    arrayIncludes(mapGetOrEmpty(this.primaryKeys, toTable), toLowerCase(toColumn)))

RECURSIVE removeParenthesized(_)

parenthesizedTo(s, i, j) ==
  IF j = 0 THEN s
  ELSE SubSeq(s, 1, i - 1) \o removeParenthesized(SubSeq(s, j + 1, Len(s)))

parenthesizedFrom(s, i) == IF i = 0 THEN s ELSE parenthesizedTo(s, i, indexOf(s, ")", i + 1))

\* s.replace(/\([^)]*\)/g, ''): each "(" up to the first ")" after it is removed
removeParenthesized(s) == parenthesizedFrom(s, indexOf(s, "(", 1))

integerTypes ==
  {"int", "integer", "bigint", "smallint", "serial", "bigserial", "tinyint", "mediumint"}

stringTypes == {"varchar", "char", "text", "string", "nvarchar", "nchar"}

uuidTypes == {"uuid", "uniqueidentifier"}

\* lines 408-413
sameFamily(type1, type2) ==
  \/ (type1 \in integerTypes /\ type2 \in integerTypes)
  \/ (type1 \in stringTypes /\ type2 \in stringTypes)
  \/ (type1 \in uuidTypes /\ type2 \in uuidTypes)
  \/ type1 = type2

areColumnsCompatible(col1, col2) ==
  sameFamily(removeParenthesized(toLowerCase(col1.type)),
             removeParenthesized(toLowerCase(col2.type)))

\* targetTable?.columns.some(col => col.name.toLowerCase() === 'id')
hasIdColumn(this, tableName) ==
  /\ mapHas(this.tables, tableName)
  /\ \E n \in 1..Len(mapGet(this.tables, tableName).columns) :
       toLowerCase(mapGet(this.tables, tableName).columns[n].name) = "id"

\* prefix.slice(0, -1)
dropLast(s) == SubSeq(s, 1, Len(s) - 1)

\* lines 366-380: "Pattern: user_id -> users.id"; prefix is lowerColumnName.slice(0, -3)
firstPattern(lowerColumnName, lowerTableName, prefix) ==
  /\ endsWith(lowerColumnName, "_id")
  /\ arrayIncludes(<<prefix, prefix \o "s", dropLast(prefix)>>, lowerTableName)

\* lines 383-394: "Pattern: usuario_id -> usuarios.id"; parts is lowerColumnName.split('_')
secondPattern(lowerColumnName, lowerTableName, parts) ==
  /\ includes(lowerColumnName, "_id")
  /\ parts[Len(parts)] = "id"
  /\ \/ includes(lowerTableName, join(SubSeq(parts, 1, Len(parts) - 1), "_"))
     \/ includes(join(SubSeq(parts, 1, Len(parts) - 1), "_"), lowerTableName)

\* what one pass of the loop over tableNames pushes to references (lines 361-394)
referencesTo(this, lowerColumnName, tableName, currentTable) ==
  IF tableName = currentTable THEN <<>>
  ELSE (IF /\ firstPattern(lowerColumnName, toLowerCase(tableName),
                           SubSeq(lowerColumnName, 1, Len(lowerColumnName) - 3))
           /\ hasIdColumn(this, tableName)
        THEN << [tableName |-> tableName, columnName |-> "id"] >> ELSE <<>>)
       \o
       (IF /\ secondPattern(lowerColumnName, toLowerCase(tableName),
                            split(lowerColumnName, "_"))
           /\ hasIdColumn(this, tableName)
        THEN << [tableName |-> tableName, columnName |-> "id"] >> ELSE <<>>)

RECURSIVE referencesFrom(_, _, _, _)
referencesFrom(this, lowerColumnName, tableNames, currentTable) ==
  IF tableNames = <<>> THEN <<>>
  ELSE referencesTo(this, lowerColumnName, tableNames[1], currentTable)
         \o referencesFrom(this, lowerColumnName, Tail(tableNames), currentTable)

findPossibleReferences(this, columnName, tableNames, currentTable) ==
  referencesFrom(this, toLowerCase(columnName), tableNames, currentTable)

\* lines 329-334
relationshipExists(relationships, tableName, column, ref) ==
  \E n \in 1..Len(relationships) :
    /\ relationships[n].from.table = tableName
    /\ relationships[n].from.column = column.name
    /\ relationships[n].to.table = ref.tableName
    /\ relationships[n].to.column = ref.columnName

\* refTable.columns.find(...) of line 339: <<>> or <<the first column of that name>>
findColumn(columns, lowerName) ==
  pick(columns, SubSeq(ascending({ n \in 1..Len(columns) :
                                     toLowerCase(columns[n].name) = lowerName }), 1, 1))

\* lines 340-348, refColumn being what find returned
pushIfCompatible(this, tableName, column, ref, refColumn) ==
  IF refColumn # <<>> /\ areColumnsCompatible(column, refColumn[1])
  THEN << [ from |-> [table |-> tableName, column |-> column.name],
            to   |-> [table |-> ref.tableName, column |-> ref.columnName],
            type |-> determineRelationshipType(this, tableName, column.name,
                                               ref.tableName, ref.columnName),
            junctionTable |-> Absent ] >>
  ELSE <<>>

\* what one pass of the loop over possibleReferences pushes (lines 328-350)
conventionForReference(this, relationships, tableName, column, ref) ==
  IF relationshipExists(relationships, tableName, column, ref) THEN <<>>
  ELSE IF ~ mapHas(this.tables, ref.tableName) THEN <<>>
  ELSE pushIfCompatible(this, tableName, column, ref,
                        findColumn(mapGet(this.tables, ref.tableName).columns,
                                   toLowerCase(ref.columnName)))

\* the loop over possibleReferences (lines 327-351): relationships grows as it runs
RECURSIVE conventionForReferences(_, _, _, _, _)
conventionForReferences(this, relationships, tableName, column, possibleReferences) ==
  IF possibleReferences = <<>> THEN relationships
  ELSE conventionForReferences(
         this,
         relationships \o conventionForReference(this, relationships, tableName, column,
                                                 possibleReferences[1]),
         tableName, column, Tail(possibleReferences))

\* lines 322-351 for one column
conventionForColumn(this, relationships, tableName, column) ==
  IF column.foreignKey # Absent THEN relationships
  ELSE conventionForReferences(this, relationships, tableName, column,
         findPossibleReferences(this, column.name, mapKeys(this.tables), tableName))

\* the loop over one table's columns (lines 321-352)
RECURSIVE conventionForColumns(_, _, _, _)
conventionForColumns(this, relationships, tableName, columns) ==
  IF columns = <<>> THEN relationships
  ELSE conventionForColumns(this,
         conventionForColumn(this, relationships, tableName, columns[1]),
         tableName, Tail(columns))

\* the loop over this.tables (lines 320-353)
RECURSIVE conventionForTables(_, _, _)
conventionForTables(this, relationships, entries) ==
  IF entries = <<>> THEN relationships
  ELSE conventionForTables(this,
         conventionForColumns(this, relationships, entries[1].key, entries[1].val.columns),
         Tail(entries))

\* this.relationships after detectConventionBasedRelationships
detectConventionBasedRelationships(this) ==
  conventionForTables(this, this.relationships, this.tables)

\* what lines 213-215 push
RECURSIVE manyToManyRelationships(_, _)
manyToManyRelationships(this, junctionTables) ==
  IF junctionTables = <<>> THEN <<>>
  ELSE createManyToManyRelationship(this, junctionTables[1])
         \o manyToManyRelationships(this, Tail(junctionTables))

\* the place of key k in the Map m, 0 when it has none
keyPlace(m, k) == least({ n \in 1..Len(m) : m[n].key = k })

\* the foreign keys whose referenced table was stored before tableName
resolvedEarlier(this, tableName, foreignKeys) ==
  pick(foreignKeys,
       ascending({ n \in 1..Len(foreignKeys) :
                     /\ keyPlace(this.tables, foreignKeys[n].refTable) # 0
                     /\ keyPlace(this.tables, foreignKeys[n].refTable) < keyPlace(this.tables, tableName) }))

directOf(this, tableName, kept) ==
  [ n \in 1..Len(kept) |->
      [ from |-> [table |-> tableName, column |-> kept[n].column],
        to   |-> [table |-> kept[n].refTable, column |-> kept[n].refColumn],
        type |-> determineRelationshipType(this, tableName, kept[n].column,
                                           kept[n].refTable, kept[n].refColumn),
        junctionTable |-> Absent ] ]

\* the direct pass resolving a foreign key only against tables stored earlier
directForEarlier(this, tableName, foreignKeys) ==
  directOf(this, tableName, resolvedEarlier(this, tableName, foreignKeys))

\* the direct pass pushing nothing
noDirect(this, tableName, foreignKeys) == <<>>

\* lines 221-229: what one entry of this.foreignKeys pushes
directFor(this, tableName, foreignKeys) ==
  [ n \in 1..Len(foreignKeys) |->
      [ from |-> [table |-> tableName, column |-> foreignKeys[n].column],
        to   |-> [table |-> foreignKeys[n].refTable, column |-> foreignKeys[n].refColumn],
        type |-> determineRelationshipType(this, tableName, foreignKeys[n].column,
                                           foreignKeys[n].refTable, foreignKeys[n].refColumn),
        junctionTable |-> Absent ] ]

\* what lines 218-230 push
RECURSIVE directRelationships(_, _, _)
directRelationships(this, junctionTables, entries) ==
  IF entries = <<>> THEN <<>>
  ELSE (IF arrayIncludes(junctionTables, entries[1].key) THEN <<>>
        ELSE directFor(this, entries[1].key, entries[1].val))
       \o directRelationships(this, junctionTables, Tail(entries))

(***************************************************************************)
(* The parser's fields as values, and one whole parse as a function of     *)
(* them: what parseSQL and analyzeRelationships make of fresh fields.      *)
(***************************************************************************)
\* the fields of a newly constructed SQLParser (lines 5-9)
FreshFields ==
  [ tables |-> <<>>, relationships |-> <<>>, primaryKeys |-> <<>>,
    foreignKeys |-> <<>>, uniqueConstraints |-> <<>> ]

\* lines 108-110 and 130; nothing where parseCreateTable returned early
storeTable(this, r) ==
  IF ~ r.ok THEN this
  ELSE [ this EXCEPT !.primaryKeys       = mapSet(@, r.tableName, r.primaryKeys),
                     !.foreignKeys       = mapSet(@, r.tableName, r.foreignKeys),
                     !.uniqueConstraints = mapSet(@, r.tableName, r.uniqueConstraints),
                     !.tables            = mapSet(@, r.tableName, r.table) ]

\* the loop of parseSQL (lines 34-36)
RECURSIVE parseStatements(_, _)
parseStatements(this, statements) ==
  IF statements = <<>> THEN this
  ELSE parseStatements(storeTable(this, processStatement(trim(statements[1]))),
                       Tail(statements))

\* lines 213-230, junctionTables being what line 210 computed
explicitRelationships(this, junctionTables) ==
  manyToManyRelationships(this, junctionTables)
    \o directRelationships(this, junctionTables, this.foreignKeys)

\* this.relationships after analyzeRelationships (lines 209-234)
analyzeRelationships(this) ==
  detectConventionBasedRelationships(
    [this EXCEPT !.relationships = @ \o explicitRelationships(this, identifyJunctionTables(this))])

\* the DatabaseSchema of lines 25-28, by value
schemaOf(this, relationships) ==
  [ tables |-> [ n \in 1..Len(this.tables) |-> this.tables[n].val ],
    relationships |-> relationships ]

(***************************************************************************)
(* The argument of parseSQLScript.  The type says string; at run time a    *)
(* caller can pass anything, and sql.replace (line 41) throws a TypeError  *)
(* on a value that is not a string.                                        *)
(***************************************************************************)
StringInput(text) == [isString |-> TRUE, text |-> text]

NotAString == [isString |-> FALSE, text |-> ""]

\* afterThrow without the catch: the error leaves parseSQLScript
rethrow == "escaped"

\* where control goes when parseSQL or analyzeRelationships throws: the catch
\* of lines 21-23 logs the error and falls through to the return of line 25
afterThrow == "return"

\* lines 19-28 on fields already parsed into
analyzed(this) == schemaOf(this, analyzeRelationships(this))

\* what parseSQLScript returns for an input on a newly constructed parser
ParseFresh(input) ==
  IF ~ input.isString THEN schemaOf(FreshFields, <<>>)
  ELSE analyzed(parseStatements(FreshFields, splitStatements(input.text)))

(***************************************************************************)
(* The scripts parsed: every concatenation of at most MaxFragments of the  *)
(* fragments below, each one or more statements of SQL text.               *)
(***************************************************************************)
MaxFragments == 2

\* the example of README.md
Users ==
  "CREATE TABLE users (\n  id SERIAL PRIMARY KEY,\n  name VARCHAR(100) NOT NULL,\n  email VARCHAR(100) UNIQUE\n);\n"

Posts ==
  "CREATE TABLE posts (\n  id SERIAL PRIMARY KEY,\n  user_id INTEGER NOT NULL,\n  title VARCHAR(200) NOT NULL,\n  FOREIGN KEY (user_id) REFERENCES users(id)\n);\n"

\* a foreign key column of a type whose name holds the letters UNIQUE
Sessions ==
  "CREATE TABLE accounts (id UNIQUEIDENTIFIER PRIMARY KEY);\nCREATE TABLE sessions (id INT PRIMARY KEY, account_id UNIQUEIDENTIFIER NOT NULL, FOREIGN KEY (account_id) REFERENCES accounts(id));\n"

\* the same foreign key declared twice
Likes ==
  "CREATE TABLE likes (id INT PRIMARY KEY, user_id INT, FOREIGN KEY (user_id) REFERENCES users(id), FOREIGN KEY (user_id) REFERENCES users(id));\n"

AandB ==
  "CREATE TABLE a(id INT PRIMARY KEY); CREATE TABLE b(id INT PRIMARY KEY);\n"

\* a junction table
AB ==
  "CREATE TABLE a_b(a_id INT, b_id INT, PRIMARY KEY(a_id,b_id), FOREIGN KEY(a_id) REFERENCES a(id), FOREIGN KEY(b_id) REFERENCES b(id));\n"

\* a second junction table between the same two tables, with an audit column
BA ==
  "CREATE TABLE b_a(a_id INT, b_id INT, created_at TIMESTAMP, PRIMARY KEY(a_id,b_id), FOREIGN KEY(a_id) REFERENCES a(id), FOREIGN KEY(b_id) REFERENCES b(id));\n"

\* composite key and two foreign keys, with three columns of its own
ABDetail ==
  "CREATE TABLE ab_detail(a_id INT, b_id INT, qty INT, note TEXT, rank INT, PRIMARY KEY(a_id,b_id), FOREIGN KEY(a_id) REFERENCES a(id), FOREIGN KEY(b_id) REFERENCES b(id));\n"

Categorias ==
  "CREATE TABLE categorias (id INT PRIMARY KEY, nome VARCHAR(50));\n"

\* categorias with no column named id
CategoriasNoId ==
  "CREATE TABLE categorias (codigo INT PRIMARY KEY, nome VARCHAR(50));\n"

Produtos ==
  "CREATE TABLE produtos (id INT PRIMARY KEY, categoria_id INT, preco DECIMAL(10, 2));\n"

\* lote_id and lotes.id are both of a decimal type
Lotes ==
  "CREATE TABLE lotes (id NUMERIC(10) PRIMARY KEY);\nCREATE TABLE itens (id INT PRIMARY KEY, lote_id DECIMAL(10));\n"

\* malformed: the parentheses are not closed
Drafts ==
  "CREATE TABLE drafts (id INT PRIMARY KEY, body VARCHAR(50;\n"

\* malformed: the last parenthesis is missing
Notes ==
  "CREATE TABLE notes (id INT PRIMARY KEY, body VARCHAR(50);\n"

\* comments, IF NOT EXISTS, quoted and mixed-case names, another statement kind
Roles ==
  "-- roles\nCREATE TABLE IF NOT EXISTS Roles (\n  \"Id\" INT PRIMARY KEY, /* key */\n  Label TEXT\n);\nDROP TABLE old_roles;\n"

Fragments ==
  { Users, Posts, Sessions, Likes, AandB, AB, BA, ABDetail, Categorias, CategoriasNoId,
    Produtos, Lotes, Drafts, Notes, Roles }

\* the concatenations of at most n fragments
RECURSIVE Concatenations(_)
Concatenations(n) ==
  IF n = 0 THEN {""}
  ELSE Concatenations(n - 1)
         \cup { s \o f : s \in Concatenations(n - 1), f \in Fragments }

Scripts == Concatenations(MaxFragments)

\* a table declared again, its name in capitals
ARedeclared ==
  "CREATE TABLE A (id INT PRIMARY KEY, label TEXT);\n"

\* a foreign key to a table declared nowhere, on a column named after table a
Orphan ==
  "CREATE TABLE c (id INT PRIMARY KEY, a_id INT, FOREIGN KEY (a_id) REFERENCES zzz(id));\n"

ArticlesBare ==
  "CREATE TABLE articles (id INT PRIMARY KEY, author INT NOT NULL);\n"

\* the foreign key of articles, added after its CREATE TABLE
ArticlesAlter ==
  "ALTER TABLE articles ADD CONSTRAINT fk_articles_author FOREIGN KEY (author) REFERENCES users(id);\n"

\* a semicolon inside a quoted DEFAULT value
Settings ==
  "CREATE TABLE settings (id INT PRIMARY KEY, sep VARCHAR(5) DEFAULT ';', label TEXT);\n"

\* an INSERT whose quoted value holds a semicolon and the words CREATE TABLE
Seed ==
  "INSERT INTO notes (body) VALUES ('x; CREATE TABLE demo (id INT)');\n"

\* a composite primary key and one two-column foreign key
PairNotes ==
  "CREATE TABLE pair_notes (x INT, y INT, PRIMARY KEY (x, y), FOREIGN KEY (x, y) REFERENCES pairs(x, y));\n"

\* a junction with two columns of its own and a column whose name holds date_
Members ==
  "CREATE TABLE a_b_members(a_id INT, b_id INT, role TEXT, note TEXT, date_joined DATE, PRIMARY KEY(a_id,b_id), FOREIGN KEY(a_id) REFERENCES a(id), FOREIGN KEY(b_id) REFERENCES b(id));\n"

\* further scripts, parsed beside the concatenations
Profiles ==
  "CREATE TABLE profiles (user_id INT PRIMARY KEY, bio TEXT, FOREIGN KEY (user_id) REFERENCES users(id));\n"

Passports ==
  "CREATE TABLE passports (id INT PRIMARY KEY, user_id INT UNIQUE, FOREIGN KEY (user_id) REFERENCES users(id));\n"

Cleanup ==
  "-- nothing to declare\nDROP TABLE old_roles;\nSELECT 1;\n"

Pairs ==
  "CREATE TABLE pairs (x INT, y INT, PRIMARY KEY (x, y));\n"

PairLogs ==
  "CREATE TABLE pair_logs (id INT PRIMARY KEY, x INT, y INT, z INT, w INT, FOREIGN KEY (x, y) REFERENCES pairs(x, y), FOREIGN KEY (z, w) REFERENCES pairs(x));\n"

Superusers ==
  "CREATE TABLE superusers (id INT PRIMARY KEY);\nCREATE TABLE audits (id INT PRIMARY KEY, user_id INT);\n"

Boxes ==
  "CREATE TABLE boxes (id INT PRIMARY KEY);\nCREATE TABLE lids (id INT PRIMARY KEY, box_id INT);\n"

Comments ==
  "CREATE TABLE comments (id INT, author INT, CONSTRAINT pk_comments PRIMARY KEY (id), CONSTRAINT fk_comments_author FOREIGN KEY (author) REFERENCES users(id), CONSTRAINT uq_comments_author UNIQUE (author));\n"

Reviews ==
  "CREATE TABLE reviews (id INT PRIMARY KEY, author INT REFERENCES users(id));\n"

PostsRedeclared ==
  "CREATE TABLE POSTS (id INT PRIMARY KEY, title TEXT);\n"

Pets ==
  "CREATE TABLE owners (id INT PRIMARY KEY);\nCREATE TABLE pets (id INT PRIMARY KEY, user_id INT, FOREIGN KEY (user_id) REFERENCES owners(id));\n"

Kennels ==
  "CREATE TABLE owners (id INT PRIMARY KEY);\nCREATE TABLE kennels (id INT PRIMARY KEY, user_id INT REFERENCES owners(id));\n"

Nodes ==
  "CREATE TABLE nodes (id INT PRIMARY KEY, node_id INT, user_id INT);\n"

MoreScripts ==
  { AandB \o ARedeclared, AandB \o Orphan, Users \o ArticlesBare \o ArticlesAlter,
    Settings, Seed, Users \o Seed \o Posts, PairNotes, AandB \o Members,
    Cleanup, Users \o Cleanup \o Posts, Users \o Profiles,
    Users \o Passports, Pairs \o PairLogs, Superusers, Boxes, Users \o Comments,
    Users \o Reviews, Users \o Posts \o PostsRedeclared, Nodes, Users \o Nodes,
      Users \o Pets, Users \o Kennels }

Inputs == { StringInput(s) : s \in Scripts \cup MoreScripts } \cup {NotAString}

(***************************************************************************)
(* The state: one SQLParser instance, one call of parseSQLScript at a time *)
(* and the caller that keeps the schema the last call returned.            *)
(*                                                                         *)
(* Objects that outlive a call are cells of the heap, named by address:    *)
(* the relationships array and every Table object (with its columns).  A   *)
(* returned schema holds the addresses the parser's own fields hold.       *)
(***************************************************************************)
VARIABLES
  pc,                \* "idle", or where the call in progress stands
  sqlScript,         \* the argument of the call
  statements,        \* parseSQL's local: what splitStatements returned
  index,             \* the statement the loop of parseSQL is at
  tables,            \* this.tables: name -> address of the Table
  relationships,     \* this.relationships: address of the array
  primaryKeys,       \* this.primaryKeys
  foreignKeys,       \* this.foreignKeys
  uniqueConstraints, \* this.uniqueConstraints
  heap,              \* address -> cell
  caught,            \* <<>>, or <<what had been accumulated when the catch ran>>
  schema,            \* the caller's: <<>>, or <<the schema last returned>>
  returned,          \* the caller's: the value of that schema when it was returned
  parsed             \* the caller's: the input that schema was returned for

vars == << pc, sqlScript, statements, index, tables, relationships, primaryKeys,
           foreignKeys, uniqueConstraints, heap, caught, schema, returned, parsed >>

arrayCell(items) == [kind |-> "array", name |-> "", columns |-> <<>>, items |-> items]

tableCell(table) ==
  [kind |-> "table", name |-> table.name, columns |-> table.columns, items |-> <<>>]

tableOf(cell) == [name |-> cell.name, columns |-> cell.columns]

\* the least address not in use
lowestFree(used) ==
  CHOOSE a \in 1..(Cardinality(used) + 1) :
    a \notin used /\ \A b \in 1..(a - 1) : b \in used

\* the addresses a schema reaches
schemaRefs(sch) ==
  IF sch = <<>> THEN {}
  ELSE { sch[1].tables[n] : n \in 1..Len(sch[1].tables) } \cup {sch[1].relationships}

\* the addresses a map of tables reaches
tableRefs(tbls) == { tbls[n].val : n \in 1..Len(tbls) }

\* the addresses the parser's fields reach
fieldRefs(tbls, rels) == tableRefs(tbls) \cup {rels}

\* the parser's fields by value, as the code reads them through its references
This ==
  [ tables |-> [ n \in 1..Len(tables) |->
                   [key |-> tables[n].key, val |-> tableOf(heap[tables[n].val])] ],
    relationships     |-> heap[relationships].items,
    primaryKeys       |-> primaryKeys,
    foreignKeys       |-> foreignKeys,
    uniqueConstraints |-> uniqueConstraints ]

\* a schema by value, as its holder reads it
schemaValue(sch) ==
  [ tables |-> [ n \in 1..Len(sch.tables) |-> tableOf(heap[sch.tables[n]]) ],
    relationships |-> heap[sch.relationships].items ]

\* clearMap left out: the map keeps its entries
keepMap(m) == m

\* Map.clear() (lines 12, 14, 15, 16)
clearMap(m) == <<>>

\* freshRelationships left out: the array keeps the old elements
keptRelationships(old) == old

\* the elements of the array line 13 assigns: none
freshRelationships(old) == <<>>

\* newArrayAt without a new object: the array the field held is used again
sameArrayAt(old, used) == old

\* where the array of line 13 is: a new object, not the one the field held
newArrayAt(old, used) == lowestFree(used)

Init ==
  /\ pc = "idle"
  /\ sqlScript = NotAString
  /\ statements = <<>>
  /\ index = 0
  /\ tables = <<>>
  /\ relationships = 1
  /\ primaryKeys = <<>>
  /\ foreignKeys = <<>>
  /\ uniqueConstraints = <<>>
  /\ heap = [a \in {1} |-> arrayCell(<<>>)]
  /\ caught = <<>>
  /\ schema = <<>>
  /\ returned = <<>>
  /\ parsed = NotAString

\* parseSQLScript is called: lines 11-16
Call(input) ==
  /\ pc = "idle"
  /\ sqlScript' = input
  /\ tables' = clearMap(tables)
  /\ primaryKeys' = clearMap(primaryKeys)
  /\ foreignKeys' = clearMap(foreignKeys)
  /\ uniqueConstraints' = clearMap(uniqueConstraints)
  /\ relationships' = newArrayAt(relationships, schemaRefs(schema) \cup tableRefs(tables'))
  /\ heap' = [ x \in schemaRefs(schema) \cup tableRefs(tables') \cup {relationships'} |->
                 IF x = relationships'
                 THEN arrayCell(freshRelationships(heap[relationships].items))
                 ELSE heap[x] ]
  /\ caught' = <<>>
  /\ pc' = "parseSQL"
  /\ UNCHANGED << statements, index, schema, returned, parsed >>

\* line 32, for a string: the statements are split
SplitStatements ==
  /\ pc = "parseSQL"
  /\ sqlScript.isString
  /\ statements' = splitStatements(sqlScript.text)
  /\ index' = 1
  /\ pc' = IF statements' = <<>> THEN "junctions" ELSE "statements"
  /\ UNCHANGED << sqlScript, tables, relationships, primaryKeys, foreignKeys,
                  uniqueConstraints, heap, caught, schema, returned, parsed >>

\* line 32, for a value that is not a string: sql.replace (line 41) throws and
\* the catch of line 21 runs
SplitStatementsThrows ==
  /\ pc = "parseSQL"
  /\ ~ sqlScript.isString
  /\ caught' = << schemaOf(This, This.relationships) >>
  /\ pc' = afterThrow
  /\ UNCHANGED << sqlScript, statements, index, tables, relationships, primaryKeys,
                  foreignKeys, uniqueConstraints, heap, schema, returned, parsed >>

\* one pass of the loop of lines 34-36
ProcessStatement ==
  /\ pc = "statements"
  /\ \E r \in { processStatement(trim(statements[index])) } :
       IF r.ok
       THEN /\ primaryKeys' = mapSet(primaryKeys, r.tableName, r.primaryKeys)
            /\ foreignKeys' = mapSet(foreignKeys, r.tableName, r.foreignKeys)
            /\ uniqueConstraints' = mapSet(uniqueConstraints, r.tableName, r.uniqueConstraints)
            /\ tables' = mapSet(tables, r.tableName, lowestFree(DOMAIN heap))
            /\ heap' = [ x \in schemaRefs(schema) \cup fieldRefs(tables', relationships) |->
                           IF x \in DOMAIN heap THEN heap[x] ELSE tableCell(r.table) ]
       ELSE UNCHANGED << primaryKeys, foreignKeys, uniqueConstraints, tables, heap >>
  /\ index' = index + 1
  /\ pc' = IF index = Len(statements) THEN "junctions" ELSE "statements"
  /\ UNCHANGED << sqlScript, statements, relationships, caught, schema, returned, parsed >>

\* this.relationships.push(...): the array grows in place
push(pushed) ==
  heap' = [heap EXCEPT ![relationships].items = @ \o pushed]

\* lines 210-215
JunctionPass ==
  /\ pc = "junctions"
  /\ push(manyToManyRelationships(This, identifyJunctionTables(This)))
  /\ pc' = "direct"
  /\ UNCHANGED << sqlScript, statements, index, tables, relationships, primaryKeys,
                  foreignKeys, uniqueConstraints, caught, schema, returned, parsed >>

\* lines 218-230; junctionTables is the set line 210 computed, which depends on
\* nothing the junction pass changed
DirectPass ==
  /\ pc = "direct"
  /\ push(directRelationships(This, identifyJunctionTables(This), foreignKeys))
  /\ pc' = "convention"
  /\ UNCHANGED << sqlScript, statements, index, tables, relationships, primaryKeys,
                  foreignKeys, uniqueConstraints, caught, schema, returned, parsed >>

\* line 233
ConventionPass ==
  /\ pc = "convention"
  /\ heap' = [heap EXCEPT ![relationships].items = detectConventionBasedRelationships(This)]
  /\ pc' = "return"
  /\ UNCHANGED << sqlScript, statements, index, tables, relationships, primaryKeys,
                  foreignKeys, uniqueConstraints, caught, schema, returned, parsed >>

\* lines 25-28: the caller gets the schema and drops the one it held
Return ==
  /\ pc = "return"
  /\ schema' = << [ tables |-> [ n \in 1..Len(tables) |-> tables[n].val ],
                    relationships |-> relationships ] >>
  /\ returned' = schemaOf(This, This.relationships)
  /\ parsed' = sqlScript
  /\ heap' = [ x \in fieldRefs(tables, relationships) |-> heap[x] ]
  /\ statements' = <<>>
  /\ index' = 0
  /\ pc' = "idle"
  /\ UNCHANGED << sqlScript, tables, relationships, primaryKeys, foreignKeys,
                  uniqueConstraints, caught >>

Step ==
  \/ SplitStatements
  \/ SplitStatementsThrows
  \/ ProcessStatement
  \/ JunctionPass
  \/ DirectPass
  \/ ConventionPass
  \/ Return

\* a parser is constructed and parses one input
FirstCall == \E input \in Inputs : schema = <<>> /\ Call(input)

Next == FirstCall \/ Step

Spec == Init /\ [][Next]_vars

(***************************************************************************)
(* One parser parsing one input after another.                             *)
(***************************************************************************)
ReuseInputs ==
  { NotAString, StringInput(""), StringInput(Users \o Posts), StringInput(Posts),
    StringInput(Sessions), StringInput(AandB \o AB), StringInput(AB \o Users),
    StringInput(Categorias \o Produtos), StringInput(CategoriasNoId \o Produtos) }

AnyCall == \E input \in ReuseInputs : Call(input)

NextReuse == AnyCall \/ Step

SpecReuse == Init /\ [][NextReuse]_vars

(***************************************************************************)
(* Properties.  A call has returned when pc is "idle" and the caller holds *)
(* a schema; returned is that schema by value, parsed the input it was     *)
(* returned for, and the registries are still those of that call.          *)
(***************************************************************************)
hasReturned == pc = "idle" /\ schema # <<>>

Range(arr) == { arr[n] : n \in 1..Len(arr) }

\* the indices of the relationships from one column to another
relationshipsBetween(rels, fromTable, fromColumn, toTable, toColumn) ==
  { n \in 1..Len(rels) :
      /\ rels[n].from = [table |-> fromTable, column |-> fromColumn]
      /\ rels[n].to = [table |-> toTable, column |-> toColumn] }

\* the columns of the returned table of that name
returnedColumns(tableName) ==
  UNION { Range(returned.tables[t].columns) :
            t \in { u \in 1..Len(returned.tables) : returned.tables[u].name = tableName } }

\* every definition of every parenthesized body of the script, as its tokens
scriptDefinitions(text) ==
  UNION { { splitSpaces(trim(d)) : d \in Range(splitColumnDefinitions(contentMatch(st).g[1])) } :
            st \in { x \in Range(splitStatements(text)) : contentMatch(x).ok } }

\* the script declares column c UNIQUE, or holds a table-level UNIQUE constraint
carriesUnique(text, c) ==
  \E d \in scriptDefinitions(text) :
    \/ startsWith(toUpperCase(d[1]), "UNIQUE")
    \/ /\ toLowerCase(stripQuotes(d[1])) = c
       /\ \E k \in 3..Len(d) : startsWith(toUpperCase(d[k]), "UNIQUE")

\* table S has one foreign key, on its column c, to the primary key id of the
\* returned table T, and c is neither a primary key nor declared UNIQUE
plainForeignKey(S, fks, T) ==
  /\ Len(fks) = 1
  /\ fks[1].refTable = T /\ fks[1].refColumn = "id"
  /\ \E col \in returnedColumns(T) : col.name = "id" /\ col.primaryKey
  /\ \E col \in returnedColumns(S) : col.name = fks[1].column /\ ~ col.primaryKey
  /\ ~ carriesUnique(parsed.text, fks[1].column)

\* C1: for a script declaring a table T with primary key id and a table S with
\* one table-level FOREIGN KEY(c) REFERENCES T(id), c carrying no UNIQUE or
\* PRIMARY KEY constraint, both tables are returned, S.c.foreignKey is {T, id},
\* and exactly one relationship goes from S.c to T.id, of type MANY_TO_ONE.
C1_ForeignKeyIsOneManyToOne ==
  (hasReturned /\ parsed.isString) =>
    \A s \in 1..Len(foreignKeys) : \A T \in { returned.tables[t].name : t \in 1..Len(returned.tables) } :
      plainForeignKey(foreignKeys[s].key, foreignKeys[s].val, T) =>
        LET S == foreignKeys[s].key
            c == foreignKeys[s].val[1].column
            found == relationshipsBetween(returned.relationships, S, c, T, "id")
        IN /\ \A col \in returnedColumns(S) :
                col.name = c => col.foreignKey = << [table |-> T, column |-> "id"] >>
           /\ Cardinality(found) = 1
           /\ \A n \in found : returned.relationships[n].type = "MANY_TO_ONE"

\* the entry j of the foreign key registry is a table with a composite primary
\* key (x, y) and two single-column foreign keys x -> A(id) and y -> B(id)
junctionShaped(j) ==
  /\ Len(foreignKeys[j].val) = 2
  /\ foreignKeys[j].val[1].column # foreignKeys[j].val[2].column
  /\ foreignKeys[j].val[1].refColumn = "id" /\ foreignKeys[j].val[2].refColumn = "id"
  /\ Len(mapGetOrEmpty(primaryKeys, foreignKeys[j].key)) = 2
  /\ Range(mapGetOrEmpty(primaryKeys, foreignKeys[j].key))
       = { foreignKeys[j].val[1].column, foreignKeys[j].val[2].column }
  /\ returnedColumns(foreignKeys[j].key) # {}

\* one MANY_TO_MANY relationship A.id - B.id carries the junction's name, and
\* no relationship starts at the junction's own foreign key columns
oneManyToMany(j) ==
  LET J == foreignKeys[j].key
      fk1 == foreignKeys[j].val[1]
      fk2 == foreignKeys[j].val[2]
      rels == returned.relationships
      named == { n \in 1..Len(rels) : rels[n].junctionTable = <<J>> }
  IN /\ Cardinality(named) = 1
     /\ \A n \in named :
          /\ rels[n].type = "MANY_TO_MANY"
          /\ rels[n].from = [table |-> fk1.refTable, column |-> "id"]
          /\ rels[n].to = [table |-> fk2.refTable, column |-> "id"]
     /\ \A n \in 1..Len(rels) :
          ~ (rels[n].from.table = J /\ rels[n].from.column \in {fk1.column, fk2.column})

\* the columns of the junction-shaped table other than its two key columns
otherColumns(j) ==
  { col \in returnedColumns(foreignKeys[j].key) :
      col.name \notin { foreignKeys[j].val[1].column, foreignKeys[j].val[2].column } }

\* C2 as stated: every table J with a composite PRIMARY KEY(x, y) and two
\* single-column foreign keys x -> A(id), y -> B(id) is a junction: exactly one
\* MANY_TO_MANY relationship between A and B has junctionTable = J, and no
\* relationship starts at J.x or J.y.
C2_AsStated ==
  (hasReturned /\ parsed.isString) =>
    \A j \in 1..Len(foreignKeys) : junctionShaped(j) => oneManyToMany(j)

\* C2: a table J with a composite PRIMARY KEY(x, y), two single-column foreign
\* keys x -> A(id), y -> B(id) and at most two columns other than x and y is a
\* junction: exactly one MANY_TO_MANY relationship between A and B has
\* junctionTable = J, and no relationship starts at J.x or J.y.
C2_SmallJunction ==
  (hasReturned /\ parsed.isString) =>
    \A j \in 1..Len(foreignKeys) :
      (junctionShaped(j) /\ Cardinality(otherColumns(j)) <= 2) => oneManyToMany(j)

C2_Witness ==
  /\ hasReturned /\ parsed.isString
  /\ \E j \in 1..Len(foreignKeys) :
       /\ junctionShaped(j) /\ Cardinality(otherColumns(j)) = 1
       /\ \E n \in 1..Len(returned.relationships) :
            returned.relationships[n].junctionTable = <<foreignKeys[j].key>>

relationshipKey(rel) == <<rel.from.table, rel.from.column, rel.to.table, rel.to.column>>

\* C3: in the returned schema no two relationships share the same
\* (from.table, from.column, to.table, to.column) key.
C3_NoDuplicateKeys ==
  hasReturned =>
    \A m, n \in 1..Len(returned.relationships) :
      m # n => relationshipKey(returned.relationships[m]) # relationshipKey(returned.relationships[n])

cardinalityPriority(type) ==
  CASE type = "ONE_TO_ONE" -> 0
    [] type = "ONE_TO_MANY" -> 1
    [] type = "MANY_TO_ONE" -> 2
    [] type = "MANY_TO_MANY" -> 3

\* the characters of table and column names and the dot, in code unit order
NameAlphabet == ".0123456789_abcdefghijklmnopqrstuvwxyz"

codeUnitRank(c) == CHOOSE i \in 1..Len(NameAlphabet) : charAt(NameAlphabet, i) = c

\* s <= t as strings
RECURSIVE notGreater(_, _)
notGreater(s, t) ==
  IF s = "" THEN TRUE
  ELSE IF t = "" THEN FALSE
  ELSE IF charAt(s, 1) = charAt(t, 1)
       THEN notGreater(SubSeq(s, 2, Len(s)), SubSeq(t, 2, Len(t)))
       ELSE codeUnitRank(charAt(s, 1)) < codeUnitRank(charAt(t, 1))

inOrder(r1, r2) ==
  \/ cardinalityPriority(r1.type) < cardinalityPriority(r2.type)
  \/ /\ cardinalityPriority(r1.type) = cardinalityPriority(r2.type)
     /\ notGreater(r1.from.table \o "." \o r1.from.column, r2.from.table \o "." \o r2.from.column)

\* C4: the returned relationship list is sorted by cardinality priority
\* (ONE_TO_ONE, ONE_TO_MANY, MANY_TO_ONE, MANY_TO_MANY) and then by
\* from.table + "." + from.column: no relationship is greater than the next.
C4_Sorted ==
  hasReturned =>
    \A n \in 1..(Len(returned.relationships) - 1) :
      inOrder(returned.relationships[n], returned.relationships[n + 1])

\* the CREATE TABLE statements of a script
createStatements(text) ==
  { st \in { trim(x) : x \in Range(splitStatements(text)) } :
      startsWith(toUpperCase(st), "CREATE TABLE") /\ tableNameMatch(st).ok }

\* the first k characters of st
leading(st, k) == SubSeq(st, 1, IF Len(st) < k THEN Len(st) ELSE k)

\* the leftmost match of the table name: the one at the start when there is one
leftmostName(st) == orElse(tableNameAt(st, 1), tableNameMatch(st))

declaredName(st) == toLowerCase(leftmostName(st).g[1])

\* as many "(" as ")"
balanced(st) == parenDepthAt(st, Len(st) + 1) = 0

returnedNames == { returned.tables[t].name : t \in 1..Len(returned.tables) }

\* C5: every valid CREATE TABLE statement of a script has its table in the
\* returned schema, wherever a malformed one stands, and a CREATE TABLE
\* statement with unmatched parentheses contributes no table.
C5_MalformedIsSkipped ==
  (hasReturned /\ parsed.isString) =>
    \A st \in createStatements(parsed.text) :
      IF balanced(st) THEN declaredName(st) \in returnedNames
      ELSE (\A other \in createStatements(parsed.text) :
              balanced(other) => declaredName(other) # declaredName(st))
           => declaredName(st) \notin returnedNames

\* C6: no failure leaves parseSQLScript, and a call in which a step failed
\* still returns a schema, holding exactly what had been accumulated.
C6_FailureIsCaught ==
  /\ pc # "escaped"
  /\ (hasReturned /\ caught # <<>>) => returned = caught[1]

C6_Witness == hasReturned /\ caught # <<>> /\ ~ parsed.isString /\ primaryKeys = <<>>

\* C7: what a parser that has parsed before returns for a script is what a
\* newly constructed parser returns for it.
C7_ReuseIsFresh ==
  (pc = "return" /\ schema # <<>>) => schemaOf(This, This.relationships) = ParseFresh(sqlScript)

C7_Witness ==
  /\ pc = "return" /\ schema # <<>>
  /\ returned.tables # <<>> /\ returned.relationships # <<>>
  /\ sqlScript # parsed /\ sqlScript.isString
  /\ This.tables # <<>> /\ This.relationships # <<>>

\* C8: a schema that was returned keeps its value through every later call:
\* its tables, their columns and its relationships are what they were.
C8_ReturnedIsSnapshot == schema # <<>> => schemaValue(schema[1]) = returned

C8_Witness ==
  /\ pc = "return" /\ schema # <<>>
  /\ returned.tables # <<>> /\ returned.relationships # <<>>
  /\ This.tables # <<>> /\ This.relationships # <<>>
  /\ schemaOf(This, This.relationships) # returned

\* C9: two calls with the same input return the same tables in the same
\* order and the same relationships in the same order.
C9_Deterministic ==
  (pc = "return" /\ schema # <<>> /\ sqlScript = parsed)
    => schemaOf(This, This.relationships) = returned

C9_Witness ==
  /\ pc = "return" /\ schema # <<>> /\ sqlScript = parsed
  /\ Len(returned.tables) >= 2 /\ returned.relationships # <<>>

\* the families of the type compatibility rule
typeFamilies ==
  { {"int", "integer", "bigint", "smallint", "serial", "bigserial", "tinyint", "mediumint"},
    {"varchar", "char", "text", "nvarchar", "nchar"},
    {"decimal", "numeric", "float", "double", "real", "money"},
    {"date", "datetime", "timestamp", "time"},
    {"uuid", "uniqueidentifier"} }

normalizedType(col) == removeParenthesized(toLowerCase(col.type))

inSameFamily(col1, col2) ==
  \E family \in typeFamilies : normalizedType(col1) \in family /\ normalizedType(col2) \in family

\* C10: a column <stem>_id with no explicit foreign key, beside a different
\* table <stem>s with a column id of a type of the same family, yields a
\* MANY_TO_ONE relationship from the column to that id; when that table has
\* no column id, no relationship from the column to it is inferred.
C10_ConventionInfers ==
  (hasReturned /\ parsed.isString) =>
    \A S \in returnedNames : \A col \in returnedColumns(S) :
      (col.foreignKey = Absent /\ endsWith(col.name, "_id")) =>
        \A T \in returnedNames \ {S} :
          T = SubSeq(col.name, 1, Len(col.name) - 3) \o "s" =>
            /\ \A id \in returnedColumns(T) :
                 (id.name = "id" /\ inSameFamily(col, id)) =>
                   \E n \in relationshipsBetween(returned.relationships, S, col.name, T, "id") :
                     returned.relationships[n].type = "MANY_TO_ONE"
            /\ (\A id \in returnedColumns(T) : id.name # "id") =>
                 \A n \in 1..Len(returned.relationships) :
                   ~ ( /\ returned.relationships[n].from = [table |-> S, column |-> col.name]
                       /\ returned.relationships[n].to.table = T )

\* a statement that declares a table: CREATE TABLE, a name and a body
declaresTable(st) ==
  /\ toUpperCase(leading(st, 12)) = "CREATE TABLE"
  /\ leftmostName(st).ok
  /\ contentMatch(st).ok

\* the declaring statements of a script, in order
declarations(text) == filterSeq(declaresTable, mapSeq(trim, splitStatements(text)))

\* the names the declaring statements of a script declare, in order
declaredNames(text) == mapSeq(declaredName, declarations(text))

\* the place of the first of the names equal to name, 0 when there is none
firstDeclared(names, name) == least({ n \in 1..Len(names) : names[n] = name })

\* the tables are distinct in name and stand in the order of the names
inDeclaredOrder(tbls, names) ==
  /\ \A m, n \in 1..Len(tbls) : m # n => toLowerCase(tbls[m].name) # toLowerCase(tbls[n].name)
  /\ \A n \in 1..Len(tbls) : firstDeclared(names, tbls[n].name) > 0
  /\ \A m, n \in 1..Len(tbls) :
       m < n => firstDeclared(names, tbls[m].name) < firstDeclared(names, tbls[n].name)

\* C11: the returned tables list holds each table name at most once, names
\* compared without regard to case, and lists the tables in the order in
\* which their names were first declared in the script.
C11_FirstDeclaredOrder ==
  (hasReturned /\ parsed.isString) =>
    \E names \in { declaredNames(parsed.text) } : inDeclaredOrder(returned.tables, names)

\* a table declared, another declared, the first declared again
redeclared(tbls, names) ==
  /\ Len(names) = 3 /\ Len(tbls) = 2
  /\ names[1] = names[3] /\ names[1] # names[2]
  /\ tbls[1].name = names[1]

C11_Witness ==
  hasReturned /\ parsed.isString /\ redeclared(returned.tables, declaredNames(parsed.text))

\* a table and column the script declares
endpointDeclared(e) == \E col \in returnedColumns(e.table) : col.name = e.column

\* a foreign key whose referenced table or column is declared nowhere
dangling(fk) == ~ endpointDeclared([table |-> fk.refTable, column |-> fk.refColumn])

\* the tables of the registry that hold such a foreign key
danglingTables ==
  { foreignKeys[j].key : j \in { i \in 1..Len(foreignKeys) :
                                   \E fk \in Range(foreignKeys[i].val) : dangling(fk) } }

\* a FOREIGN KEY definition all of whose references are declared nowhere
isDanglingDefinition(d) ==
  /\ startsWith(toUpperCase(trim(d)), "FOREIGN KEY")
  /\ \E fks \in { parseForeignKeyConstraint(trim(d)) } :
       fks # <<>> /\ \A fk \in Range(fks) : dangling(fk)

isResolvedDefinition(d) == ~ isDanglingDefinition(d)

\* a declaring statement written again without those definitions
withoutDangling(st) ==
  IF ~ declaresTable(st) THEN st
  ELSE SubSeq(st, 1, indexOf(st, "(", 1))
         \o join(filterSeq(isResolvedDefinition, splitColumnDefinitions(contentMatch(st).g[1])), ", ")
         \o ")"

\* what a new parser returns for the statements sts without those definitions
parsedWithoutDangling(sts) ==
  ParseFresh(StringInput(join(mapSeq(withoutDangling, sts), ";")))

\* the column holds the foreign key declared for it, and a relationship from
\* it, or of the junction S, reaches the undeclared endpoint
retained(S, fk, fks, rels) ==
  /\ \A col \in returnedColumns(S) :
       (col.name = fk.column /\ \A other \in Range(fks) : other.column = fk.column => other = fk)
         => col.foreignKey = << [table |-> fk.refTable, column |-> fk.refColumn] >>
  /\ \E n \in 1..Len(rels) :
       \/ /\ rels[n].from = [table |-> S, column |-> fk.column]
          /\ rels[n].to = [table |-> fk.refTable, column |-> fk.refColumn]
       \/ /\ rels[n].junctionTable = <<S>>
          /\ [table |-> fk.refTable, column |-> fk.refColumn] \in {rels[n].from, rels[n].to}

allRetained ==
  \A j \in 1..Len(foreignKeys) : \A fk \in Range(foreignKeys[j].val) :
    dangling(fk) => retained(foreignKeys[j].key, fk, foreignKeys[j].val, returned.relationships)

\* the tables are those of the other schema, but for the tables of S
sameOtherTables(tbls, others, S) ==
  /\ Len(tbls) = Len(others)
  /\ \A n \in 1..Len(tbls) :
       /\ tbls[n].name = others[n].name
       /\ tbls[n].name \notin S => tbls[n] = others[n]

reachesDeclared(rel) == endpointDeclared(rel.from) /\ endpointDeclared(rel.to)

\* a relationship that neither starts at a table of S nor has one as junction
apartFrom(S, rel) ==
  /\ rel.from.table \notin S
  /\ \A J \in S : rel.junctionTable # <<J>>

\* C12 as stated: a foreign key to a table or column declared nowhere is
\* retained unresolved, the parse does not fail, and all other tables and
\* relationships are the same as without that foreign key.
C12_AsStated ==
  (hasReturned /\ parsed.isString) =>
    \E S \in { danglingTables } :
      S # {} =>
        /\ allRetained
        /\ caught = <<>>
        /\ \E sts \in { mapSeq(trim, splitStatements(parsed.text)) } :
          \E without \in { parsedWithoutDangling(sts) } :
             /\ sameOtherTables(returned.tables, without.tables, S)
             /\ filterSeq(reachesDeclared, returned.relationships) = without.relationships

\* C12: a foreign key of a table S to a table or column declared nowhere is
\* retained unresolved: the column's foreignKey holds the declared table and
\* column, a relationship reaches the undeclared endpoint, the parse does not
\* fail, the other tables are the same as without that foreign key, and so
\* are the relationships that neither start at S nor have S as junction.
C12_RetainedUnresolved ==
  (hasReturned /\ parsed.isString) =>
    \E S \in { danglingTables } :
      S # {} =>
        /\ allRetained
        /\ caught = <<>>
        /\ \E sts \in { mapSeq(trim, splitStatements(parsed.text)) } :
          \E without \in { parsedWithoutDangling(sts) } :
             /\ sameOtherTables(returned.tables, without.tables, S)
             /\ \A rel \in Range(returned.relationships) \cup Range(without.relationships) :
                  apartFrom(S, rel) =>
                    rel \in Range(returned.relationships) \cap Range(without.relationships)

C12_Witness ==
  /\ hasReturned /\ parsed.isString
  /\ \E S \in { danglingTables } :
       /\ S # {}
       /\ \E rel \in Range(returned.relationships) : ~ reachesDeclared(rel)
       /\ \E rel \in Range(returned.relationships) : apartFrom(S, rel)

\* ALTER TABLE t ADD CONSTRAINT n <constraint>
isAlterTable(st) ==
  /\ startsWith(toUpperCase(st), "ALTER TABLE")
  /\ includes(toUpperCase(st), "ADD CONSTRAINT")
  /\ wordAt(st, reSpaces1(st, 12)).ok

alteredTable(st) == toLowerCase(wordAt(st, reSpaces1(st, 12)).g[1])

\* the text after the constraint's name
constraintAfter(st, i) ==
  trim(SubSeq(st, reSpaces1(st, reWord1(st, reSpaces1(st, i + 14))), Len(st)))

addedConstraint(st) == constraintAfter(st, indexOf(toUpperCase(st), "ADD CONSTRAINT", 1))

\* the places of the ALTER TABLE statements that follow the declaration at n
\* and name its table
alterationsOf(sts, n) ==
  { m \in (n + 1)..Len(sts) : isAlterTable(sts[m]) /\ alteredTable(sts[m]) = declaredName(sts[n]) }

\* the ALTER TABLE statement at m follows the CREATE TABLE of its table
followsDeclaration(sts, m) ==
  /\ isAlterTable(sts[m])
  /\ \E n \in 1..(m - 1) : declaresTable(sts[n]) /\ m \in alterationsOf(sts, n)

\* the statement at n with the constraints added to its table written inside
\* its body, and nothing in place of the statements that added them
inlinedAt(sts, n) ==
  IF declaresTable(sts[n]) /\ alterationsOf(sts, n) # {}
  THEN SubSeq(sts[n], 1, lastIndexOf(sts[n], ")") - 1) \o ", "
         \o join(mapSeq(addedConstraint, pick(sts, ascending(alterationsOf(sts, n)))), ", ") \o ")"
  ELSE IF followsDeclaration(sts, n) THEN "" ELSE sts[n]

inlined(sts) == join([ n \in 1..Len(sts) |-> inlinedAt(sts, n) ], ";")

altered(sts) == \E m \in 1..Len(sts) : followsDeclaration(sts, m)

sameAsInlined(sch, sts) ==
  altered(sts) => \E other \in { ParseFresh(StringInput(inlined(sts))) } :
                    /\ sch.relationships = other.relationships
                    /\ sch.tables = other.tables

\* C13: a constraint added by ALTER TABLE t ADD CONSTRAINT after t's CREATE
\* TABLE gives the same tables and relationships as the same constraint
\* declared inside t's CREATE TABLE body.
C13_AlterIsIncorporated ==
  (hasReturned /\ parsed.isString) =>
    sameAsInlined(returned, mapSeq(trim, splitStatements(parsed.text)))

\* the quote characters of the scripts (none of them holds a backtick)
QuoteChars == {"'", "\""}

\* the places of the ";" of s from i to j
semicolons(s, i, j) == { k \in i..j : charAt(s, k) = ";" }

\* the places from i on of the ";" of s outside every quoted literal, where
\* place i lies outside them: q is the place of the next opening quote
\* character, and the literal runs to the next occurrence of that character
RECURSIVE terminatorsFrom(_, _)
terminatorsTo(s, i, q, close) ==
  semicolons(s, i, q - 1) \cup (IF close = 0 THEN {} ELSE terminatorsFrom(s, close + 1))

terminatorsUntil(s, i, q) ==
  IF q = 0 THEN semicolons(s, i, Len(s))
  ELSE terminatorsTo(s, i, q, indexOf(s, charAt(s, q), q + 1))

terminatorsFrom(s, i) == terminatorsUntil(s, i, least(inside(s, i, QuoteChars)))

cutOutsideQuotes(s) == filterSeq(isNotBlank, cutAt(s, ascending(terminatorsFrom(s, 1))))

\* the statements of a script, ended only by a ";" outside quoted literals
quoteAwareStatements(text) == cutOutsideQuotes(removeBlockComments(removeLineComments(text)))

\* every table a statement of sts declares, and no other statement of sts
\* declares, is among tbls with all that the statement gives it
wholeTables(tbls, sts) ==
  \A n \in 1..Len(sts) :
    (/\ declaresTable(sts[n])
     /\ \A m \in 1..Len(sts) : (declaresTable(sts[m]) /\ declaredName(sts[m]) = declaredName(sts[n])) => m = n)
      => \E t \in 1..Len(tbls) : tbls[t] = processStatement(sts[n]).table

\* C14: a statement ends at a ";" only when that ";" lies outside every
\* single-quoted, double-quoted or backtick-quoted literal, so a CREATE TABLE
\* statement holding a ";" inside a literal is parsed with all of its columns.
C14_SplitsOutsideQuotes ==
  /\ pc = "statements" => statements = quoteAwareStatements(sqlScript.text)
  /\ (hasReturned /\ parsed.isString) =>
       wholeTables(returned.tables, mapSeq(trim, quoteAwareStatements(parsed.text)))

\* a statement of a kind the parser is to recognize
isRecognizedKind(st) ==
  \/ startsWith(toUpperCase(trim(st)), "CREATE TABLE")
  \/ startsWith(toUpperCase(trim(st)), "ALTER TABLE")
  \/ startsWith(toUpperCase(trim(st)), "CREATE INDEX")
  \/ startsWith(toUpperCase(trim(st)), "CREATE UNIQUE INDEX")

\* the schema is that of the recognized statements of sts alone
sameWithoutOthers(sch, sts) ==
  \E other \in { ParseFresh(StringInput(join(filterSeq(isRecognizedKind, sts), ";"))) } :
    /\ sch.tables = other.tables
    /\ sch.relationships = other.relationships

\* C15: a statement of any other kind than CREATE TABLE, ALTER TABLE ... ADD
\* CONSTRAINT and CREATE [UNIQUE] INDEX, standing anywhere between the
\* statements of a script, raises no error and leaves the returned tables and
\* relationships as they are without it.
C15_OtherKindsIgnored ==
  (hasReturned /\ parsed.isString) =>
    /\ caught = <<>>
    /\ sameWithoutOthers(returned, quoteAwareStatements(parsed.text))

isCreateTable(st) == startsWith(toUpperCase(trim(st)), "CREATE TABLE")

\* C16: for an input with no CREATE TABLE statement (the empty string,
\* comments only, statements of other kinds only) the returned schema has an
\* empty tables list and an empty relationships list.
C16_NoCreateTableIsEmpty ==
  (hasReturned /\ parsed.isString /\ passing(isCreateTable, quoteAwareStatements(parsed.text)) = {}) =>
    /\ returned.tables = <<>>
    /\ returned.relationships = <<>>

isForeignKeyDefinition(d) == startsWith(toUpperCase(trim(d)), "FOREIGN KEY") /\ fkMatch(trim(d)).ok

\* the FOREIGN KEY constraints of a declaring statement, one per definition
foreignKeyConstraints(st) ==
  filterSeq(isForeignKeyDefinition, splitColumnDefinitions(contentMatch(st).g[1]))

\* the columns a FOREIGN KEY constraint lists
constrainedColumns(d) == Range(columnList(fkMatch(trim(d)).g[1]))

\* the last of the declaring statements sts that declares name
lastDeclaration(sts, name) ==
  sts[greatest({ n \in 1..Len(sts) : declaredName(sts[n]) = name })]

\* two FOREIGN KEY constraints whose columns together are the primary key pk
twoForeignKeysCovering(fks, pk) ==
  /\ Len(fks) = 2
  /\ Range(pk) = constrainedColumns(fks[1]) \cup constrainedColumns(fks[2])

\* the tables the relationships rels name as junction
junctionsOf(rels) ==
  { rels[n].junctionTable[1] : n \in { m \in 1..Len(rels) : rels[m].junctionTable # Absent } }

\* C17: a table is classified as a junction only if it has exactly two
\* FOREIGN KEY constraints, counted as constraints and not as column pairs,
\* and the columns of its PRIMARY KEY are the union of the columns of the two.
C17_JunctionHasTwoConstraints ==
  (hasReturned /\ parsed.isString) =>
    \A J \in junctionsOf(returned.relationships) :
      twoForeignKeysCovering(foreignKeyConstraints(lastDeclaration(declarations(parsed.text), J)),
                             mapGetOrEmpty(primaryKeys, J))

\* created_at, updated_at or deleted_at, or a name holding timestamp or date_
isAuditColumn(name) ==
  \/ toLowerCase(name) \in {"created_at", "updated_at", "deleted_at"}
  \/ includes(toLowerCase(name), "timestamp")
  \/ includes(toLowerCase(name), "date_")

\* the columns that are neither foreign-key columns nor audit columns
remainingColumns(cols, fks) ==
  { col.name : col \in { c \in cols : c.name \notin { fk.column : fk \in Range(fks) }
                                        /\ ~ isAuditColumn(c.name) } }

\* every foreign key of table J is a relationship starting at its column
emittedDirectly(J, fks, rels) ==
  \A fk \in Range(fks) : \E rel \in Range(rels) :
    /\ rel.junctionTable = Absent
    /\ rel.from = [table |-> J, column |-> fk.column]
    /\ rel.to = [table |-> fk.refTable, column |-> fk.refColumn]

junctionIffFewColumns(J, fks, rels) ==
  IF Cardinality(remainingColumns(returnedColumns(J), fks)) <= 2
  THEN J \in junctionsOf(rels)
  ELSE J \notin junctionsOf(rels) /\ emittedDirectly(J, fks, rels)

\* C18: a table with two foreign keys whose columns are its primary key is a
\* junction iff at most two columns remain once its foreign-key columns and
\* its audit columns (created_at, updated_at, deleted_at, any name holding
\* timestamp or date_) are left out; with three or more it is no junction and
\* its foreign keys are emitted by the direct pass.
C18_AuditColumnsExcluded ==
  (hasReturned /\ parsed.isString) =>
    \A J \in returnedNames :
      twoForeignKeysCovering(foreignKeyConstraints(lastDeclaration(declarations(parsed.text), J)),
                             mapGetOrEmpty(primaryKeys, J))
        => junctionIffFewColumns(J, mapGetOrEmpty(foreignKeys, J), returned.relationships)

\* the words of a definition after its first
wordsAfterFirst(tokens) == { toUpperCase(tokens[k]) : k \in 2..Len(tokens) }

\* the definition declares column c UNIQUE, or is a UNIQUE constraint on c alone
makesUnique(d, c) ==
  \/ /\ cleanName(splitSpaces(trim(d))[1]) = c
     /\ "UNIQUE" \in wordsAfterFirst(splitSpaces(removeParenthesized(trim(d))))
  \/ /\ startsWith(toUpperCase(trim(d)), "UNIQUE")
     /\ parseUniqueConstraint(trim(d)) = <<c>>

\* the declaring statement gives column c a single-column UNIQUE constraint
singleColumnUnique(st, c) ==
  \E d \in Range(splitColumnDefinitions(contentMatch(st).g[1])) :
    splitSpaces(trim(d)) # <<>> /\ makesUnique(d, c)

\* the type a relationship of the direct or convention pass is to have
typeFor(isFromColumnUnique, isSolePrimaryKey, isToColumnPrimary) ==
  IF (isFromColumnUnique \/ isSolePrimaryKey) /\ isToColumnPrimary THEN "ONE_TO_ONE"
  ELSE "MANY_TO_ONE"

expectedType(sts, rel) ==
  typeFor(singleColumnUnique(lastDeclaration(sts, rel.from.table), rel.from.column),
          mapGetOrEmpty(primaryKeys, rel.from.table) = << rel.from.column >>,
          arrayIncludes(mapGetOrEmpty(primaryKeys, rel.to.table), rel.to.column))

typedAsDeclared(rels, sts) ==
  \A n \in 1..Len(rels) : rels[n].junctionTable = Absent => rels[n].type = expectedType(sts, rels[n])

\* C19: a relationship is ONE_TO_ONE exactly when its from-column carries a
\* single-column UNIQUE or single-column PRIMARY KEY constraint and its
\* to-column is a primary key of the to-table, and MANY_TO_ONE otherwise; a
\* member of a multi-column UNIQUE constraint and a definition with the letters
\* UNIQUE inside another word do not count.
C19_OneToOneIffUnique ==
  (hasReturned /\ parsed.isString) =>
    typedAsDeclared(returned.relationships, declarations(parsed.text))

\* the relationship is one a declared foreign key of its from-table gives
isDeclared(rel) ==
  \E fk \in Range(mapGetOrEmpty(foreignKeys, rel.from.table)) :
    /\ fk.column = rel.from.column
    /\ rel.to = [table |-> fk.refTable, column |-> fk.refColumn]

\* 1 for a record of the direct pass, 2 of the junction pass, 3 of the
\* convention pass
passOf(rel) ==
  IF rel.junctionTable # Absent THEN 2
  ELSE IF isDeclared(rel) THEN 1
  ELSE 3

inPassOrder(rels) == \A m, n \in 1..Len(rels) : m < n => passOf(rels[m]) <= passOf(rels[n])

\* C20: the three passes append to one list in a fixed order: every record of
\* the direct foreign-key pass stands before every record of the junction
\* pass, and every record of the junction pass before every record of the
\* convention pass.
C20_DirectJunctionConvention ==
  /\ hasReturned => inPassOrder(returned.relationships)
  /\ pc = "direct" => \A rel \in Range(heap[relationships].items) : rel.junctionTable = Absent

\* the columns a FOREIGN KEY constraint references
referencedColumns(d) == columnList(fkMatch(trim(d)).g[3])

\* the i-th referenced column, the first where there is no i-th
pairedColumn(refs, i) == IF i <= Len(refs) THEN refs[i] ELSE refs[1]

\* the endpoints one FOREIGN KEY constraint d of table S pairs
pairsOf(S, d, sources, refs) ==
  [ i \in 1..Len(sources) |->
      [ from |-> [table |-> S, column |-> sources[i]],
        to   |-> [table |-> toLowerCase(fkMatch(trim(d)).g[2]), column |-> pairedColumn(refs, i)] ] ]

RECURSIVE pairsOfAll(_, _)
pairsOfAll(S, ds) ==
  IF ds = <<>> THEN <<>>
  ELSE pairsOf(S, ds[1], columnList(fkMatch(trim(ds[1])).g[1]), referencedColumns(ds[1]))
         \o pairsOfAll(S, Tail(ds))

\* two foreign-key constraints covering the primary key, and at most two
\* columns besides foreign-key and audit columns
isJunctionAsDeclared(S, st) ==
  /\ twoForeignKeysCovering(foreignKeyConstraints(st), mapGetOrEmpty(primaryKeys, S))
  /\ Cardinality(remainingColumns(returnedColumns(S), mapGetOrEmpty(foreignKeys, S))) <= 2

endpoints(rel) == [from |-> rel.from, to |-> rel.to]

\* the relationships without junction table that start at a column among cols
startingAt(rels, S, cols) ==
  pick(rels, ascending({ n \in 1..Len(rels) : /\ rels[n].junctionTable = Absent
                                                /\ rels[n].from.table = S
                                                /\ rels[n].from.column \in cols }))

\* a column the pairs name once holds the reference of its pair
storedAsPaired(S, pairs) ==
  \A i \in 1..Len(pairs) : \A col \in returnedColumns(S) :
    (col.name = pairs[i].from.column
       /\ \A j \in 1..Len(pairs) : pairs[j].from.column = col.name => j = i)
      => col.foreignKey = << pairs[i].to >>

pairedPositionally(S, pairs, rels) ==
  /\ mapSeq(endpoints, startingAt(rels, S, { pairs[i].from.column : i \in 1..Len(pairs) })) = pairs
  /\ storedAsPaired(S, pairs)

\* C21: for every foreign-key constraint of a non-junction table with source
\* columns c1..cn and referenced columns r1..rm, the direct pass emits exactly
\* n relationships, the i-th from ci to ri of the referenced table, to r1
\* where there is no ri, and each source column stores the same pairing.
C21_PairedPositionally ==
  (hasReturned /\ parsed.isString) =>
    \E sts \in { declarations(parsed.text) } :
      \A S \in returnedNames :
        \E st \in { lastDeclaration(sts, S) } :
          ~ isJunctionAsDeclared(S, st) =>
            pairedPositionally(S, pairsOfAll(S, foreignKeyConstraints(st)), returned.relationships)

\* the six table names a column <stem>_id may refer to
candidateNames(stem) ==
  {stem, stem \o "s", stem \o "es", stem \o "a", stem \o "as"}
    \cup (IF endsWith(stem, "s") THEN {dropLast(stem)} ELSE {})

\* of one family, or the same once normalized
compatibleTypes(col1, col2) ==
  inSameFamily(col1, col2) \/ normalizedType(col1) = normalizedType(col2)

\* a relationship without junction table goes from S.c to a column of T
inferredTo(rels, S, c, T) ==
  \E n \in 1..Len(rels) :
    /\ rels[n].junctionTable = Absent
    /\ rels[n].from = [table |-> S, column |-> c]
    /\ rels[n].to.table = T

\* table T is a candidate of the stem, with a column id of a compatible type
isCandidate(T, stem, col) ==
  /\ T \in candidateNames(stem)
  /\ \E id \in returnedColumns(T) : id.name = "id" /\ compatibleTypes(col, id)

\* C22: from a column <stem>_id with no explicit foreign key the convention
\* pass infers a relationship to a table exactly when the table's name is one
\* of stem, stem+s, stem+es, stem without its trailing s, stem+a, stem+as, and
\* the table has a column named id of a compatible type.
C22_SixCandidates ==
  (hasReturned /\ parsed.isString) =>
    \A S \in returnedNames : \A col \in returnedColumns(S) :
      (col.foreignKey = Absent /\ endsWith(col.name, "_id")) =>
        \A T \in returnedNames \ {S} :
          inferredTo(returned.relationships, S, col.name, T)
            <=> isCandidate(T, SubSeq(col.name, 1, Len(col.name) - 3), col)

\* the statements in the opposite order, as one script
RECURSIVE reversed(_)
reversed(sts) == IF sts = <<>> THEN <<>> ELSE Append(reversed(Tail(sts)), sts[1])

\* no name is declared twice
declaredOnce(names) == \A m, n \in 1..Len(names) : names[m] = names[n] => m = n

\* the same tables with the same columns and foreignKey references, the same
\* junction tables, the same relationships with the same cardinalities
sameAnalysis(sch, other) ==
  /\ Range(sch.tables) = Range(other.tables)
  /\ junctionsOf(sch.relationships) = junctionsOf(other.relationships)
  /\ Range(sch.relationships) = Range(other.relationships)

\* every declaring statement has its table stored
allStored(sts) == \A n \in 1..Len(sts) : declaresTable(sts[n]) => mapHas(tables, declaredName(sts[n]))

\* C23: junction detection and the relationship passes start only after every
\* CREATE TABLE statement has been parsed, so the junction set, the columns'
\* foreignKey references and the set of relationships with their cardinalities
\* are the same whether a referenced table is declared before or after the
\* table that references it.
C23_OrderIndependent ==
  /\ pc = "statements" => heap[relationships].items = <<>>
  /\ (pc \in {"junctions", "direct", "convention"} /\ statements # <<>>)
       => index = Len(statements) + 1
  /\ pc = "junctions" => allStored(mapSeq(trim, statements))
  /\ (hasReturned /\ parsed.isString) =>
       \E sts \in { splitStatements(parsed.text) } :
         declaredOnce(mapSeq(declaredName, filterSeq(declaresTable, mapSeq(trim, sts))))
           => sameAnalysis(returned, ParseFresh(StringInput(join(reversed(sts), ";"))))

\* a relationship from a table to one declared after it
C23_Witness ==
  /\ hasReturned /\ parsed.isString
  /\ \E rel \in Range(returned.relationships) : \E m, n \in 1..Len(returned.tables) :
       /\ m < n
       /\ rel.junctionTable = Absent
       /\ returned.tables[m].name = rel.from.table
       /\ returned.tables[n].name = rel.to.table

isNamedConstraint(d) == startsWith(toUpperCase(trim(d)), "CONSTRAINT")

\* the definition after CONSTRAINT and the name
afterName(t) == trim(SubSeq(t, reSpaces1(t, reWord1(t, reSpaces1(t, 11))), Len(t)))

\* the unnamed form of a definition
unnamed(d) == IF isNamedConstraint(d) THEN afterName(trim(d)) ELSE d

\* a declaring statement with each named constraint in its unnamed form
withUnnamed(st) ==
  IF ~ declaresTable(st) THEN st
  ELSE SubSeq(st, 1, indexOf(st, "(", 1))
         \o join(mapSeq(unnamed, splitColumnDefinitions(contentMatch(st).g[1])), ", ")
         \o ")"

hasNamedConstraint(st) ==
  declaresTable(st) /\ passing(isNamedConstraint, splitColumnDefinitions(contentMatch(st).g[1])) # {}

sameAsUnnamed(sch, sts) ==
  passing(hasNamedConstraint, sts) # {} =>
    \E other \in { ParseFresh(StringInput(join(mapSeq(withUnnamed, sts), ";"))) } :
      /\ sch.tables = other.tables
      /\ sch.relationships = other.relationships

\* C24: a table-body definition CONSTRAINT <name> followed by PRIMARY KEY(...),
\* FOREIGN KEY(...) REFERENCES t(...) or UNIQUE(...) has the effect of the
\* unnamed form of that constraint on primaryKey flags, foreignKey
\* references, junction detection and relationships.
C24_NamedAsUnnamed ==
  (hasReturned /\ parsed.isString) =>
    sameAsUnnamed(returned, mapSeq(trim, splitStatements(parsed.text)))

\* a definition that is no table-level constraint
isColumnDefinition(d) ==
  /\ Len(splitSpaces(trim(d))) >= 2
  /\ \A word \in {"PRIMARY KEY", "FOREIGN KEY", "UNIQUE", "CONSTRAINT", "CHECK"} :
       ~ startsWith(toUpperCase(trim(d)), word)

\* REFERENCES t(c) at place i of a column definition: g[2] is t, g[3] is c
inlineReferenceAt(d, i) == IF i = 0 THEN NoMatch ELSE fkReferences(d, "", reSpaces1(d, i + 10))

inlineReference(d) == inlineReferenceAt(d, indexOf(toUpperCase(d), "REFERENCES", 1))

\* column c of table S is an explicit foreign key to t.rc
explicitForeignKey(S, c, t, rc, rels) ==
  /\ \A col \in returnedColumns(S) : col.name = c => col.foreignKey = << [table |-> t, column |-> rc] >>
  /\ [column |-> c, refTable |-> t, refColumn |-> rc] \in Range(mapGetOrEmpty(foreignKeys, S))
  /\ \E rel \in Range(rels) : /\ rel.from = [table |-> S, column |-> c]
                                /\ rel.to = [table |-> t, column |-> rc]
  /\ \A rel \in Range(rels) :
       (rel.junctionTable = Absent /\ rel.from = [table |-> S, column |-> c])
         => rel.to = [table |-> t, column |-> rc]

referencedInline(S, d, m, rels) ==
  m.ok => explicitForeignKey(S, cleanName(splitSpaces(trim(d))[1]), toLowerCase(m.g[2]),
                             cleanName(m.g[3]), rels)

\* C25: a column definition with an inline REFERENCES t(c) clause gets
\* foreignKey {t, c}, is recorded among the foreign keys of its table, yields
\* a direct relationship from the column to t.c, and is skipped by the
\* convention pass.
C25_InlineReferences ==
  (hasReturned /\ parsed.isString) =>
    \E sts \in { declarations(parsed.text) } :
      \A S \in returnedNames :
        \A d \in Range(splitColumnDefinitions(contentMatch(lastDeclaration(sts, S)).g[1])) :
          isColumnDefinition(d) => referencedInline(S, d, inlineReference(d), returned.relationships)

\* every column of every returned table
allReturnedColumns == UNION { Range(returned.tables[t].columns) : t \in 1..Len(returned.tables) }

\* C26: areColumnsCompatible(c1, c2) is true iff the two types, without a
\* parenthesised precision and in lower case, are of one family among
\* integer, string, decimal, date/time and uuid, or are identical; the
\* relation is reflexive and symmetric.
C26_CompatibleIffSameFamily ==
  hasReturned =>
    \A c1, c2 \in allReturnedColumns :
      /\ areColumnsCompatible(c1, c2) <=> compatibleTypes(c1, c2)
      /\ areColumnsCompatible(c1, c1)
      /\ areColumnsCompatible(c1, c2) <=> areColumnsCompatible(c2, c1)

\* the records a step appends to the relationship list
appended == SubSeq(heap'[relationships'].items, Len(heap[relationships].items) + 1,
                   Len(heap'[relationships'].items))

typesOf(rels) == { rels[n].type : n \in 1..Len(rels) }

\* what each pass appends, and what a returned schema holds
passTypes ==
  /\ pc = "junctions" => typesOf(appended) \subseteq {"MANY_TO_MANY"}
  /\ pc \in {"direct", "convention"} => typesOf(appended) \subseteq {"ONE_TO_ONE", "MANY_TO_ONE"}
  /\ hasReturned' => typesOf(returned'.relationships) \subseteq {"ONE_TO_ONE", "MANY_TO_ONE", "MANY_TO_MANY"}

\* C27: no relationship of a returned schema is ONE_TO_MANY: every
\* relationship of the direct pass or the convention pass is ONE_TO_ONE or
\* MANY_TO_ONE, and every relationship of the junction pass is MANY_TO_MANY.
C27_NeverOneToMany == [][passTypes]_vars

\* a schema with a relationship of the junction pass and one of each other type
C27_Witness ==
  /\ hasReturned
  /\ {"MANY_TO_MANY", "ONE_TO_ONE"} \subseteq typesOf(returned.relationships)

\* table J is returned, was classified as a junction, and its two recorded
\* foreign keys reference the two ends of rel
joins(J, fks, rel) ==
  /\ J \in returnedNames
  /\ arrayIncludes(identifyJunctionTables(This), J)
  /\ Len(fks) = 2
  /\ rel.from = [table |-> fks[1].refTable, column |-> fks[1].refColumn]
  /\ rel.to = [table |-> fks[2].refTable, column |-> fks[2].refColumn]

\* C28: in a returned schema a relationship has junctionTable set iff it is
\* MANY_TO_MANY, and that junctionTable names a returned table classified as
\* a junction, with exactly two recorded foreign keys, whose referenced
\* endpoints are the relationship's from and to.
C28_JunctionTableIffManyToMany ==
  hasReturned =>
    \A rel \in Range(returned.relationships) :
      /\ rel.junctionTable # Absent <=> rel.type = "MANY_TO_MANY"
      /\ rel.junctionTable # Absent =>
           joins(rel.junctionTable[1], mapGetOrEmpty(foreignKeys, rel.junctionTable[1]), rel)

C28_Witness ==
  /\ hasReturned
  /\ \E rel \in Range(returned.relationships) : rel.junctionTable # Absent
  /\ \E rel \in Range(returned.relationships) : rel.junctionTable = Absent

\* the places in tbls of the tables named S
placesOf(tbls, S) == { n \in 1..Len(tbls) : tbls[n].name = S }

\* the one table named S stands where S was first declared
atFirstDeclaration(tbls, names, S) ==
  /\ Cardinality(placesOf(tbls, S)) = 1
  /\ \A n \in 1..Len(tbls) : \A s \in placesOf(tbls, S) :
       n < s <=> (/\ firstDeclared(names, tbls[n].name) > 0
                  /\ firstDeclared(names, tbls[n].name) < firstDeclared(names, S))

\* the table and the registry entries of S are those of the declaration r
fromDeclaration(tbls, S, r) ==
  /\ \A s \in placesOf(tbls, S) : tbls[s] = r.table
  /\ mapGetOrEmpty(primaryKeys, S) = r.primaryKeys
  /\ mapGetOrEmpty(foreignKeys, S) = r.foreignKeys
  /\ mapGetOrEmpty(uniqueConstraints, S) = r.uniqueConstraints

\* the declaring statement at n is the last that declares its name
isLastDeclaration(sts, n) ==
  ~ declaresTable(sts[n])
    \/ \A m \in (n + 1)..Len(sts) : declaresTable(sts[m]) => declaredName(sts[m]) # declaredName(sts[n])

\* the statements without the declarations a later one replaces
lastDeclarations(sts) == pick(sts, ascending({ n \in 1..Len(sts) : isLastDeclaration(sts, n) }))

redeclaredNames(names) ==
  { names[n] : n \in { k \in 1..Len(names) : \E m \in 1..Len(names) : m # k /\ names[m] = names[k] } }

lastWins(sch, sts, ds, names) ==
  /\ \A S \in redeclaredNames(names) :
       /\ atFirstDeclaration(sch.tables, names, S)
       /\ fromDeclaration(sch.tables, S, processStatement(lastDeclaration(ds, S)))
  /\ redeclaredNames(names) # {} =>
       \E other \in { ParseFresh(StringInput(join(lastDeclarations(sts), ";"))) } :
         /\ Range(sch.relationships) = Range(other.relationships)
         /\ Range(sch.tables) = Range(other.tables)

\* C29: when a script declares a table name more than once, names compared
\* without regard to case, the returned schema holds one table of that name,
\* at the place of the first declaration, and its columns and its primary-key,
\* foreign-key and unique-constraint entries come from the last declaration
\* only; nothing of an earlier declaration remains or reaches junction
\* detection or the relationships.
C29_LastDeclarationWins ==
  (hasReturned /\ parsed.isString) =>
    \E sts \in { mapSeq(trim, splitStatements(parsed.text)) } :
      \E ds \in { filterSeq(declaresTable, sts) } :
        lastWins(returned, sts, ds, mapSeq(declaredName, ds))

\* a table with a foreign key declared again without it
C29_Witness ==
  /\ hasReturned /\ parsed.isString
  /\ \E ds \in { declarations(parsed.text) } :
       \E m, n \in 1..Len(ds) :
         /\ m < n
         /\ declaredName(ds[m]) = declaredName(ds[n])
         /\ processStatement(ds[m]).foreignKeys # <<>>
         /\ processStatement(ds[n]).foreignKeys = <<>>
         /\ mapGetOrEmpty(foreignKeys, declaredName(ds[n])) = <<>>

\* table T of the Map tbls has a column named c whose foreignKey satisfies the test
storedColumn(tbls, T, c, hasForeignKey) ==
  \E n \in 1..Len(tbls) :
    /\ tbls[n].key = T
    /\ \E col \in Range(tbls[n].val.columns) :
         col.name = c /\ (col.foreignKey # Absent <=> hasForeignKey)

\* the definition of column c in the declaration of table S among the
\* statements sts carries a REFERENCES clause
declaresReference(sts, S, c) ==
  \E d \in Range(splitColumnDefinitions(contentMatch(lastDeclaration(sts, S)).g[1])) :
    /\ isColumnDefinition(d)
    /\ cleanName(splitSpaces(trim(d))[1]) = c
    /\ inlineReference(d).ok

\* a FOREIGN KEY constraint of table T covers column c, or the definition of
\* c carries a REFERENCES clause
hasExplicitForeignKey(sts, T, c) ==
  \/ \E fk \in Range(mapGetOrEmpty(foreignKeys, T)) : fk.column = c
  \/ declaresReference(sts, T, c)

\* to the column id of another stored table
toOtherTable(tbls, rel) ==
  /\ rel.junctionTable = Absent
  /\ rel.from.table # rel.to.table
  /\ rel.to.column = "id"
  /\ storedColumn(tbls, rel.to.table, "id", TRUE) \/ storedColumn(tbls, rel.to.table, "id", FALSE)

\* from a stored column whose foreignKey is not set
fromUnsetForeignKey(tbls, rel) ==
  /\ storedColumn(tbls, rel.from.table, rel.from.column, FALSE)
  /\ ~ storedColumn(tbls, rel.from.table, rel.from.column, TRUE)

conventionAppends ==
  pc = "convention" =>
    \E sts \in { declarations(sqlScript.text) } :
      \A rel \in Range(appended) :
        /\ toOtherTable(This.tables, rel)
        /\ fromUnsetForeignKey(This.tables, rel)
        /\ ~ hasExplicitForeignKey(sts, rel.from.table, rel.from.column)

\* C30: every relationship the convention pass emits goes from a column
\* without explicit foreign key to the column named id of a different table
\* of the returned tables list: never from a table to itself, never from a
\* column whose foreignKey is set.
C30_ConventionToOtherTable == [][conventionAppends]_vars

\* the same with the field foreignKey of the column alone, whatever the
\* declaration of the column says
conventionAppendsUnset ==
  pc = "convention" =>
    \A rel \in Range(appended) :
      toOtherTable(This.tables, rel) /\ fromUnsetForeignKey(This.tables, rel)

C30_FieldAlone == [][conventionAppendsUnset]_vars

====
